---- MODULE Spec2Model ----
(***************************************************************************)
(* Email synchronisation and thread consistency of draftly-be:             *)
(* EmailRepository (threads, emails, batch upsert) and the EmailService    *)
(* operations syncUserEmails, getThread and replyToThread.                 *)
(*                                                                         *)
(* The storage client is modelled as two tables (threads, emails) kept in  *)
(* insertion order; every call on it is atomic.  The steps of the async    *)
(* functions are the actions: one action per awaited storage or remote     *)
(* call, so that calls of different requests, and of the items that one    *)
(* Promise.all starts together, interleave.                                *)
(***************************************************************************)
EXTENDS Integers, Sequences, FiniteSets, TLC

\* ------------------------------------------------------------------ bounds
\* longest input list handed to upsertEmailsBatch
MaxBatch == 2
\* storage failures injected in one behaviour
MaxFaults == 1
\* calls of upsertEmailsBatch made by the repository driver
MaxRuns == 2
\* operations the service driver runs one after the other
MaxOps == 2
\* first reading of the wall clock; Date headers lie before it
ClockStart == 10

Procs == {"p1", "p2"}
Users == {"u1", "u2"}

\* error.message of a failed storage call
StorageErr == "storage failure"

VARIABLES
    emails,        \* the Email table: rows in insertion order
    threads,       \* the Thread table: rows in insertion order
    nextId,        \* next generated row id
    pc,            \* per request: where it stands
    op,            \* per request: the operation it runs
    payloads,      \* per request: the EmailUpsertInput list of its batch
    itemPc,        \* per request, per batch item: find / write / done
    itemExisting,  \* per request, per batch item: id found by findFirst, 0 if none
    results,       \* per request, per batch item: its EmailUpsertResult
    txOps,         \* per request: writes of its open transaction, in order
    report,        \* per request: the EmailBatchUpsertResult returned
    injected,      \* per request: batch items whose storage call was made to fail
    faultsLeft,    \* storage failures still to inject
    batchIn,       \* repository driver: the input list
    reports,       \* repository driver: the reports of its completed calls
    snaps,         \* repository driver: the Email table after each completed call
    tokens,        \* per user: the stored credential pair
    remote,        \* the remote mailbox: the messages of the inbox, as parsed
    clock,         \* the wall clock read by new Date()
    caller,        \* per request: the user it acts for
    tok,           \* per request: effectiveTokens
    msgs,          \* per request: the messages fetched
    idx,           \* per request: position of the reconciliation loop
    threadCache,   \* per request: threadCache (remote thread id -> EmailThread)
    log,           \* per request: the remote calls it made, in order
    result,        \* per request: the ServiceResult returned
    reqThread,     \* per request: the threadId argument
    sent,          \* per request: the options handed to sendReply
    opsLeft,       \* operations the service driver may still start
    drafts,        \* the Draft table, rows in insertion order
    credentials,   \* the credentials set on the one shared OAuth2 client
    isRunning,     \* BackgroundService.isRunning
    intervalId,    \* BackgroundService.intervalId, 0 for null
    timers,        \* the interval timers active in the runtime
    nextTimer,     \* the id the next setInterval returns
    runs,          \* the executions of runPeriodicTasks and syncAllUsers, in order of their start
    lastCall       \* the last of start(), stop() and timer tick that happened

storeVars == <<emails, threads, nextId>>
batchVars == <<payloads, itemPc, itemExisting, results, txOps, report, injected>>
driverVars == <<batchIn, reports, snaps>>
bgVars == <<isRunning, intervalId, timers, nextTimer, runs, lastCall>>
sideVars == <<drafts, credentials, bgVars>>
envVars == <<remote, caller, opsLeft>>
orchVars == <<tok, msgs, idx, threadCache, log, result, reqThread, sent>>
vars == <<emails, threads, nextId, pc, op, payloads, itemPc, itemExisting,
          results, txOps, report, injected, faultsLeft, batchIn, reports, snaps,
          tokens, remote, clock, caller, tok, msgs, idx, threadCache, log,
          result, reqThread, sent, opsLeft, drafts, credentials, isRunning,
          intervalId, timers, nextTimer, runs, lastCall>>

\* ------------------------------------------------------------ sequences
Range(s) == {s[i] : i \in DOMAIN s}

SeqsUpTo(S, n) == UNION {[1..k -> S] : k \in 0..n}

RECURSIVE FilterSeq(_, _)
\* Array.prototype.filter with the predicate given as the set of kept values
FilterSeq(s, keep) ==
    IF s = <<>> THEN <<>>
    ELSE IF Head(s) \in keep
         THEN <<Head(s)>> \o FilterSeq(Tail(s), keep)
         ELSE FilterSeq(Tail(s), keep)

\* ---------------------------------------------------------------- store
\* the data fields an upsert writes (everything of the input but gmailId)
DataOf(e) ==
    [threadId |-> e.threadId, userId |-> e.userId, from |-> e.from,
     to |-> e.to, subject |-> e.subject, body |-> e.body,
     htmlBody |-> e.htmlBody, timestamp |-> e.timestamp,
     isUnread |-> e.isUnread]

\* client.email.create: the row stored for input e under a fresh id
EmailRow(id, e) ==
    [id |-> id, gmailId |-> e.gmailId, threadId |-> e.threadId,
     userId |-> e.userId, from |-> e.from, to |-> e.to,
     subject |-> e.subject, body |-> e.body, htmlBody |-> e.htmlBody,
     timestamp |-> e.timestamp, isUnread |-> e.isUnread]

\* client.email.update({where: {id}, data}): gmailId and id are kept, and so
\* is the stored htmlBody when the input has none (an undefined field of
\* data is not written)
UpdatedRow(r, e) ==
    [id |-> r.id, gmailId |-> r.gmailId, threadId |-> e.threadId,
     userId |-> e.userId, from |-> e.from, to |-> e.to,
     subject |-> e.subject, body |-> e.body,
     htmlBody |-> IF e.htmlBody = "" THEN r.htmlBody ELSE e.htmlBody,
     timestamp |-> e.timestamp, isUnread |-> e.isUnread]

RECURSIVE ApplyOps(_, _)
\* the table after the writes of a transaction, applied in order
ApplyOps(rows, ops) ==
    IF ops = <<>> THEN rows
    ELSE LET o == Head(ops)
             after == IF o.kind = "create"
                      THEN Append(rows, o.row)
                      ELSE [i \in DOMAIN rows |->
                              IF rows[i].id = o.id
                              THEN UpdatedRow(rows[i], o.data)
                              ELSE rows[i]]
         IN ApplyOps(after, Tail(ops))

\* what a query inside the transaction of request p reads
TxView(p) == ApplyOps(emails, txOps[p])

\* client.email.findFirst({where: {gmailId, userId}}): the id of the first
\* matching row in table order, 0 when there is none
FindFirstEmail(rows, g, u) ==
    LET hits == {i \in DOMAIN rows : rows[i].gmailId = g /\ rows[i].userId = u}
    IN IF hits = {} THEN 0
       ELSE rows[CHOOSE i \in hits : \A j \in hits : i <= j].id

RowById(rows, id) == CHOOSE r \in Range(rows) : r.id = id
HasId(rows, id) == \E r \in Range(rows) : r.id = id

\* --------------------------------------------------- upsertEmailInternal
NoResult == [gmailId |-> "", success |-> FALSE, created |-> FALSE,
             email |-> <<>>, error |-> ""]

\* mapToEmailMessage: the EmailMessage of a row (userId is not part of it)
MapToEmailMessage(r) ==
    [id |-> r.id, gmailId |-> r.gmailId, threadId |-> r.threadId,
     from |-> r.from, to |-> r.to, subject |-> r.subject, body |-> r.body,
     htmlBody |-> r.htmlBody, timestamp |-> r.timestamp,
     isUnread |-> r.isUnread]

\* the success result: email is mapToEmailMessage(record)
OkResult(e, created, row) ==
    [gmailId |-> e.gmailId, success |-> TRUE, created |-> created,
     email |-> <<MapToEmailMessage(row)>>, error |-> ""]

ErrResult(e, msg) ==
    [gmailId |-> e.gmailId, success |-> FALSE, created |-> FALSE,
     email |-> <<>>, error |-> msg]

\* A variant of the catch block that lets the error escape the batch.
UpsertCatchRethrow(p, i) ==
    /\ pc' = [pc EXCEPT ![p] = "batch_threw"]
    /\ itemPc' = [itemPc EXCEPT ![p][i] = "done"]
    /\ txOps' = [txOps EXCEPT ![p] = <<>>]
    /\ UNCHANGED results

\* error instanceof Error ? error.message : "Unknown upsert error"
UpsertErrors == {StorageErr, "Unknown upsert error"}

\* catch (error): the item's result reports the failure, nothing escapes
UpsertCatch(p, i) ==
    /\ \E message \in UpsertErrors :
          results' = [results EXCEPT ![p][i] = ErrResult(payloads[p][i], message)]
    /\ itemPc' = [itemPc EXCEPT ![p][i] = "done"]
    /\ UNCHANGED <<pc, txOps>>

\* const existing = await client.email.findFirst(...)
UpsertFind(p, i) ==
    /\ pc[p] = "batch_run"
    /\ i \in DOMAIN payloads[p]
    /\ itemPc[p][i] = "find"
    /\ itemExisting' = [itemExisting EXCEPT ![p][i] =
          FindFirstEmail(TxView(p), payloads[p][i].gmailId, payloads[p][i].userId)]
    /\ itemPc' = [itemPc EXCEPT ![p][i] = "write"]
    /\ UNCHANGED <<storeVars, pc, op, payloads, results, txOps, report,
                   injected, faultsLeft, driverVars, sideVars,
                   tokens, clock, envVars, orchVars>>

\* await client.email.update(...) when a row was found, else
\* await client.email.create(...); then the success result
UpsertWrite(p, i) ==
    /\ pc[p] = "batch_run"
    /\ i \in DOMAIN payloads[p]
    /\ itemPc[p][i] = "write"
    /\ LET e == payloads[p][i]
           ex == itemExisting[p][i]
       IN IF ex # 0
          THEN IF HasId(TxView(p), ex)
               THEN /\ txOps' = [txOps EXCEPT ![p] =
                          Append(@, [kind |-> "update", id |-> ex, data |-> DataOf(e),
                                     row |-> <<>>])]
                    /\ results' = [results EXCEPT ![p][i] =
                          OkResult(e, FALSE, UpdatedRow(RowById(TxView(p), ex), e))]
                    /\ itemPc' = [itemPc EXCEPT ![p][i] = "done"]
                    /\ UNCHANGED <<pc, nextId>>
               ELSE \* the row to update is gone: update throws
                    /\ UpsertCatch(p, i)
                    /\ UNCHANGED nextId
          ELSE /\ txOps' = [txOps EXCEPT ![p] =
                     Append(@, [kind |-> "create", id |-> nextId, data |-> DataOf(e),
                                row |-> EmailRow(nextId, e)])]
               /\ results' = [results EXCEPT ![p][i] =
                     OkResult(e, TRUE, EmailRow(nextId, e))]
               /\ itemPc' = [itemPc EXCEPT ![p][i] = "done"]
               /\ nextId' = nextId + 1
               /\ UNCHANGED pc
    /\ UNCHANGED <<emails, threads, op, payloads, itemExisting, report,
                   injected, faultsLeft, driverVars, sideVars,
                   tokens, clock, envVars, orchVars>>

\* a storage call of item i (its findFirst, or its update or create) throws
UpsertFail(p, i) ==
    /\ pc[p] = "batch_run"
    /\ i \in DOMAIN payloads[p]
    /\ itemPc[p][i] \in {"find", "write"}
    /\ faultsLeft > 0
    /\ faultsLeft' = faultsLeft - 1
    /\ injected' = [injected EXCEPT ![p] = @ \cup {i}]
    /\ UpsertCatch(p, i)
    /\ UNCHANGED <<storeVars, op, payloads, itemExisting, report, driverVars, sideVars,
                   tokens, clock, envVars, orchVars>>

\* ------------------------------------------------------ upsertEmailsBatch
\* results.filter(r => !r.success).map(r => ({gmailId, error}))
RECURSIVE ErrorsOf(_)
ErrorsOf(rs) ==
    IF rs = <<>> THEN <<>>
    ELSE IF ~Head(rs).success
         THEN <<[gmailId |-> Head(rs).gmailId,
                 error |-> IF Head(rs).error = "" THEN "Unknown upsert error"
                           ELSE Head(rs).error]>> \o ErrorsOf(Tail(rs))
         ELSE ErrorsOf(Tail(rs))

\* results.filter(r => r.success && r.created).length
CreatedCount(rs) ==
    Cardinality({i \in DOMAIN rs : rs[i].success /\ rs[i].created})

EmptyReport == [results |-> <<>>, createdCount |-> 0, errors |-> <<>>]

\* entry of upsertEmailsBatch: the empty list returns at once; otherwise the
\* transaction opens and Promise.all starts every item
BatchBegin(p) ==
    /\ pc[p] = "batch_start"
    /\ IF payloads[p] = <<>>
       THEN /\ report' = [report EXCEPT ![p] = EmptyReport]
            /\ pc' = [pc EXCEPT ![p] = "batch_ret"]
            /\ UNCHANGED <<itemPc, itemExisting, results, txOps, injected>>
       ELSE /\ itemPc' = [itemPc EXCEPT ![p] = [i \in DOMAIN payloads[p] |-> "find"]]
            /\ itemExisting' = [itemExisting EXCEPT ![p] = [i \in DOMAIN payloads[p] |-> 0]]
            /\ results' = [results EXCEPT ![p] = [i \in DOMAIN payloads[p] |-> NoResult]]
            /\ txOps' = [txOps EXCEPT ![p] = <<>>]
            /\ injected' = [injected EXCEPT ![p] = {}]
            /\ pc' = [pc EXCEPT ![p] = "batch_run"]
            /\ UNCHANGED report
    /\ UNCHANGED <<storeVars, op, payloads, faultsLeft, driverVars, sideVars,
                   tokens, clock, envVars, orchVars>>

\* Promise.all resolved: the transaction commits and the report is built
BatchCommit(p) ==
    /\ pc[p] = "batch_run"
    /\ \A i \in DOMAIN itemPc[p] : itemPc[p][i] = "done"
    /\ emails' = ApplyOps(emails, txOps[p])
    /\ txOps' = [txOps EXCEPT ![p] = <<>>]
    /\ report' = [report EXCEPT ![p] =
          [results |-> results[p],
           createdCount |-> CreatedCount(results[p]),
           errors |-> ErrorsOf(results[p])]]
    /\ pc' = [pc EXCEPT ![p] = "batch_ret"]
    /\ UNCHANGED <<threads, nextId, op, payloads, itemPc, itemExisting, results,
                   injected, faultsLeft, driverVars, sideVars,
                   tokens, clock, envVars, orchVars>>

\* ---------------------------------------------------------- credentials
NoTokens == [accessToken |-> "", refreshToken |-> ""]

\* A token gate that ignores the requirement and accepts either token.
GetValidTokensEither(u, requirement) ==
    LET t == tokens[u]
    IN IF t.accessToken # "" \/ t.refreshToken # "" THEN <<t>> ELSE <<>>

\* A token gate that asks for both tokens whatever the requirement.
GetValidTokensBoth(u, requirement) ==
    LET t == tokens[u]
    IN IF t.accessToken # "" /\ t.refreshToken # "" THEN <<t>> ELSE <<>>

\* getValidTokens(firebaseUid, requirement): the stored pair when it meets
\* the requirement, else null (<<>>)
GetValidTokens(u, requirement) ==
    LET t == tokens[u]
        hasAccess == t.accessToken # ""
        hasRefresh == t.refreshToken # ""
    IN IF requirement = "access"
       THEN IF hasAccess THEN <<t>> ELSE <<>>
       ELSE IF hasAccess \/ hasRefresh THEN <<t>> ELSE <<>>

\* a storeTokens that writes both token fields as it is given them
StoreTokensAll(old, new) ==
    [accessToken |-> new.accessToken, refreshToken |-> new.refreshToken]

\* userRepository.storeTokens: only the token fields present are written
StoreTokens(old, new) ==
    [accessToken |-> IF new.accessToken # "" THEN new.accessToken
                     ELSE old.accessToken,
     refreshToken |-> IF new.refreshToken # "" THEN new.refreshToken
                      ELSE old.refreshToken]

\* the access token the provider issues on a refresh
FreshAccess == "a2"

\* what oauth2Client.getAccessToken() can do for t: it is called only when
\* t has a refresh token and no access token, and then answers with a new
\* access token, with none, or fails with a status code (0: no code)
AccessResults(t) ==
    IF t.accessToken = "" /\ t.refreshToken # ""
    THEN {[ok |-> TRUE, token |-> FreshAccess, code |-> 0],
          [ok |-> TRUE, token |-> "", code |-> 0]}
         \cup {[ok |-> FALSE, token |-> "", code |-> c] : c \in {0, 401, 403, 500}}
    ELSE {[ok |-> TRUE, token |-> "", code |-> 0]}

\* what gmail.users.getProfile can do for t: answer, answer after the
\* client rotated the access token (token is the new one; only with a
\* refresh token and an access token that is not the newest), or fail with
\* a status code (0: no code)
ProbeResults(t) ==
    {[ok |-> TRUE, token |-> "", code |-> 0]}
    \cup (IF t.refreshToken # "" /\ t.accessToken \notin {"", FreshAccess}
          THEN {[ok |-> TRUE, token |-> FreshAccess, code |-> 0]} ELSE {})
    \cup {[ok |-> FALSE, token |-> "", code |-> c] : c \in {0, 401, 403, 500}}

\* a validateTokens whose catch block answers {valid: false} to every error
ValidateTokensAllInvalid(t, access, probe) ==
    LET refreshOnly == t.accessToken = "" /\ t.refreshToken # ""
        held == IF refreshOnly THEN access.token ELSE t.accessToken
        latest == IF probe.token # "" THEN probe.token ELSE held
    IN IF refreshOnly /\ ~access.ok
       THEN [kind |-> "invalid", refreshed |-> <<>>,
             failed |-> "getAccessToken", code |-> access.code]
       ELSE IF refreshOnly /\ access.token = ""
       THEN [kind |-> "invalid", refreshed |-> <<>>, failed |-> "", code |-> 0]
       ELSE IF ~probe.ok
       THEN [kind |-> "invalid", refreshed |-> <<>>,
             failed |-> "getProfile", code |-> probe.code]
       ELSE IF latest # "" /\ latest # t.accessToken
       THEN [kind |-> "valid", failed |-> "", code |-> 0,
             refreshed |-> <<[accessToken |-> latest, refreshToken |-> t.refreshToken]>>]
       ELSE [kind |-> "valid", refreshed |-> <<>>, failed |-> "", code |-> 0]

\* validateTokens(t) when getAccessToken does access and getProfile does
\* probe.  kind "invalid" is {valid: false}, kind "throws" is the
\* ExternalServiceError of the catch block; failed and code name the call
\* that raised and the code of its error.
ValidateTokens(t, access, probe) ==
    LET refreshOnly == t.accessToken = "" /\ t.refreshToken # ""
        Thrown(call, code) ==
            [kind |-> IF code = 401 \/ code = 403 THEN "invalid" ELSE "throws",
             refreshed |-> <<>>, failed |-> call, code |-> code]
        held == IF refreshOnly THEN access.token ELSE t.accessToken
        latest == IF probe.token # "" THEN probe.token ELSE held
    IN IF refreshOnly /\ ~access.ok THEN Thrown("getAccessToken", access.code)
       ELSE IF refreshOnly /\ access.token = ""
       THEN [kind |-> "invalid", refreshed |-> <<>>, failed |-> "", code |-> 0]
       ELSE IF ~probe.ok THEN Thrown("getProfile", probe.code)
       ELSE IF latest # "" /\ latest # t.accessToken
       THEN [kind |-> "valid", failed |-> "", code |-> 0,
             refreshed |-> <<[accessToken |-> latest, refreshToken |-> t.refreshToken]>>]
       ELSE [kind |-> "valid", refreshed |-> <<>>, failed |-> "", code |-> 0]

\* validateTokens(t): what the call can return
ValidateOutcomes(t) ==
    {ValidateTokens(t, access, probe) :
        access \in AccessResults(t), probe \in ProbeResults(t)}

\* ----------------------------------------------------- service results
OkRes(data) == [success |-> TRUE, error |-> "", data |-> <<data>>]
ErrRes(msg) == [success |-> FALSE, error |-> msg, data |-> <<>>]

\* what a rejected call rejects with: an Error with its message (an AppError
\* is one), or a value that is no Error, such as a string
ErrorOf(msg) == [isError |-> TRUE, message |-> msg]

\* the rejections of a storage call: an Error, and the same text as a string
StorageFaults == {ErrorOf(StorageErr), [isError |-> FALSE, message |-> StorageErr]}

\* handleServiceError(error): the message of an AppError or of any other
\* Error, and a fixed text for what is not an Error
HandleServiceError(e) ==
    IF e.isError THEN ErrRes(e.message) ELSE ErrRes("An unknown error occurred")

\* the failure results a rejected storage call ends a request with
StorageFailures == {HandleServiceError(e) : e \in StorageFaults}
NoRes == [success |-> FALSE, error |-> "pending", data |-> <<>>]

\* a || b on strings: the first one that is not empty
Or(a, b) == IF a # "" THEN a ELSE b

\* ---------------------------------------------------------- thread reads
RECURSIVE InsertByTimestamp(_, _)
\* x placed after every element whose timestamp is not greater (stable)
InsertByTimestamp(s, x) ==
    IF s = <<>> THEN <<x>>
    ELSE IF Head(s).timestamp <= x.timestamp
         THEN <<Head(s)>> \o InsertByTimestamp(Tail(s), x)
         ELSE <<x>> \o s

RECURSIVE SortDescending(_)
\* A sort with the comparator reversed (b before a).
SortDescending(s) ==
    IF s = <<>> THEN <<>>
    ELSE LET rest == SortDescending(Tail(s))
             bigger == SelectSeq(rest, LAMBDA y : y.timestamp >= Head(s).timestamp)
             smaller == SelectSeq(rest, LAMBDA y : y.timestamp < Head(s).timestamp)
         IN bigger \o <<Head(s)>> \o smaller

RECURSIVE SortByTimestamp(_)
\* emails.sort((a, b) => a.timestamp - b.timestamp), and orderBy timestamp asc
SortByTimestamp(s) ==
    IF s = <<>> THEN <<>>
    ELSE InsertByTimestamp(SortByTimestamp(SubSeq(s, 1, Len(s) - 1)), s[Len(s)])

RECURSIVE MapMessages(_)
MapMessages(rows) ==
    IF rows = <<>> THEN <<>>
    ELSE <<MapToEmailMessage(Head(rows))>> \o MapMessages(Tail(rows))

\* mapToEmailThread over a thread row and its included emails
MapToEmailThread(t, included) ==
    [id |-> t.id, gmailId |-> t.gmailId, subject |-> t.subject,
     messages |-> SortByTimestamp(MapMessages(included))]

\* include: {emails: {orderBy: {timestamp: "asc"}}}
EmailsOfThread(tid) ==
    SortByTimestamp(SelectSeq(emails, LAMBDA r : r.threadId = tid))

\* findThreadById(id): <<EmailThread>>, or <<>> for null
FindThreadById(id) ==
    LET hits == {i \in DOMAIN threads : threads[i].id = id}
    IN IF hits = {} THEN <<>>
       ELSE LET t == threads[CHOOSE i \in hits : TRUE]
            IN <<MapToEmailThread(t, EmailsOfThread(t.id))>>

\* findThreadByGmailId(userId, gmailId): the first match in table order
FindThreadByGmailId(u, g) ==
    LET hits == {i \in DOMAIN threads :
                    threads[i].userId = u /\ threads[i].gmailId = g}
    IN IF hits = {} THEN <<>>
       ELSE LET t == threads[CHOOSE i \in hits : \A j \in hits : i <= j]
            IN <<MapToEmailThread(t, EmailsOfThread(t.id))>>

\* the row createThread inserts; updatedAt is filled in by the database when the row is written
ThreadRow(id, u, g, subject, at) ==
    [id |-> id, userId |-> u, gmailId |-> g, subject |-> subject, updatedAt |-> at]

\* ------------------------------------------------------ remote messages
UpperCase == "ABCDEFGHIJKLMNOPQRSTUVWXYZ"
LowerCase == "abcdefghijklmnopqrstuvwxyz"

LowerChar(c) ==
    IF \E i \in 1..Len(UpperCase) : SubSeq(UpperCase, i, i) = c
    THEN LET i == CHOOSE i \in 1..Len(UpperCase) : SubSeq(UpperCase, i, i) = c
         IN SubSeq(LowerCase, i, i)
    ELSE c

RECURSIVE ToLowerCase(_)
\* name.toLowerCase()
ToLowerCase(str) ==
    IF str = "" THEN ""
    ELSE LowerChar(SubSeq(str, 1, 1)) \o ToLowerCase(SubSeq(str, 2, Len(str)))

\* the headers of that name, compared without regard to case
HeaderHits(headers, name) ==
    {i \in DOMAIN headers : ToLowerCase(headers[i].name) = ToLowerCase(name)}

\* getHeader(name): the value of the first header of that name, or ""
GetHeader(headers, name) ==
    LET hits == HeaderHits(headers, name)
    IN IF hits = {} THEN ""
       ELSE headers[CHOOSE i \in hits : \A j \in hits : i <= j].value

\* The value of a References or In-Reply-To header is held as the sequence
\* of its UTF-16 code units, so that it can hold every character the
\* regular expression \s matches; the empty value and a missing header are
\* <<>>.  getHeader(name) for these two headers:
GetHeaderUnits(headers, name) ==
    LET hits == HeaderHits(headers, name)
    IN IF hits = {} THEN <<>>
       ELSE headers[CHOOSE i \in hits : \A j \in hits : i <= j].value

\* the printable ASCII characters in order: U+0020 to U+005F, and U+0061 to
\* U+007E (a string cannot hold the grave accent, U+0060)
AsciiLow == " !\"#$%&'()*+,-./0123456789:;<=>?@ABCDEFGHIJKLMNOPQRSTUVWXYZ[\\]^_"
AsciiHigh == "abcdefghijklmnopqrstuvwxyz{|}~"

\* c.charCodeAt(0) of a one-character string
CharCode(c) ==
    CASE c = "\t" -> 9
      [] c = "\n" -> 10
      [] c = "\f" -> 12
      [] c = "\r" -> 13
      [] \E i \in 1..Len(AsciiLow) : SubSeq(AsciiLow, i, i) = c ->
            31 + CHOOSE i \in 1..Len(AsciiLow) : SubSeq(AsciiLow, i, i) = c
      [] \E i \in 1..Len(AsciiHigh) : SubSeq(AsciiHigh, i, i) = c ->
            96 + CHOOSE i \in 1..Len(AsciiHigh) : SubSeq(AsciiHigh, i, i) = c

\* the UTF-16 code units of string s
CodeUnits(s) == [i \in 1..Len(s) |-> CharCode(SubSeq(s, i, i))]

\* the Date header values in use and the instants they denote
KnownDates == {"Jan 1", "Jan 2", "Jan 3"}

\* new Date(value).getTime(); 0 stands for NaN (no or unparsable value)
GetTime(value) ==
    IF value \notin KnownDates THEN 0
    ELSE IF value = "Jan 1" THEN 1
    ELSE IF value = "Jan 2" THEN 2
    ELSE 3

\* ------------------------------------------------------ message bodies
\* s.includes(sub)
Contains(s, sub) ==
    \E i \in 1..(Len(s) - Len(sub) + 1) : SubSeq(s, i, i + Len(sub) - 1) = sub

\* Buffer.from(b64, "base64").toString("utf-8") on the body data in use
\* (the provider sends base64url, which Buffer decodes as well)
Decode(b64) ==
    CASE b64 = "dGV4dA==" -> "text"
      [] b64 = "cGxhaW4=" -> "plain"
      [] b64 = "PGI-aGk8L2I-" -> "<b>hi</b>"
      [] b64 = "PDw_Pj4=" -> "<<?>>"
      [] OTHER -> ""

NoBodies == [html |-> "", text |-> ""]

RECURSIVE VisitPart(_, _)
RECURSIVE VisitParts(_, _)
\* A variant of visit that goes through the sub-parts before the part itself.
VisitPartInnerFirst(part, acc) ==
    LET inner == VisitParts(part.parts, acc)
        withHtml == IF Contains(part.mimeType, "text/html") /\ part.data # ""
                       /\ inner.html = ""
                    THEN [inner EXCEPT !.html = Decode(part.data)] ELSE inner
    IN IF Contains(part.mimeType, "text/plain") /\ part.data # ""
          /\ withHtml.text = ""
       THEN [withHtml EXCEPT !.text = Decode(part.data)] ELSE withHtml

\* visit(part): html and text are set by the first part that has them, then
\* the sub-parts are visited in order; acc is what was found so far
VisitPart(part, acc) ==
    LET withHtml == IF Contains(part.mimeType, "text/html") /\ part.data # ""
                       /\ acc.html = ""
                    THEN [acc EXCEPT !.html = Decode(part.data)] ELSE acc
        withText == IF Contains(part.mimeType, "text/plain") /\ part.data # ""
                       /\ withHtml.text = ""
                    THEN [withHtml EXCEPT !.text = Decode(part.data)] ELSE withHtml
    IN VisitParts(part.parts, withText)

\* for (const p of parts) visit(p)
VisitParts(parts, acc) ==
    IF parts = <<>> THEN acc
    ELSE VisitParts(Tail(parts), VisitPart(Head(parts), acc))

\* extractBodies(payload); a missing html or text is ""
ExtractBodies(payload) ==
    IF payload.data # ""
    THEN LET mime == IF payload.mimeType = "" THEN "text/plain" ELSE payload.mimeType
         IN IF Contains(mime, "html")
            THEN [html |-> Decode(payload.data), text |-> ""]
            ELSE [html |-> "", text |-> Decode(payload.data)]
    ELSE VisitParts(payload.parts, NoBodies)

\* parseGmailMessage(data): the GmailMessage of a remote message; a missing
\* messageIdHeader (undefined) is "", missing references are <<>>
ParseGmailMessage(data) ==
    LET headers == data.payload.headers
        bodies == ExtractBodies(data.payload)
    IN [id |-> data.id, threadId |-> data.threadId,
        subject |-> GetHeader(headers, "Subject"),
        from |-> GetHeader(headers, "From"),
        to |-> GetHeader(headers, "To"),
        date |-> GetHeader(headers, "Date"),
        snippet |-> data.snippet,
        body |-> Or(bodies.text, Or(bodies.html, Or(data.snippet, ""))),
        htmlBody |-> bodies.html,
        isUnread |-> ("UNREAD" \in data.labelIds),
        messageIdHeader |-> GetHeader(headers, "Message-ID"),
        references |-> IF GetHeaderUnits(headers, "References") # <<>>
                       THEN GetHeaderUnits(headers, "References")
                       ELSE GetHeaderUnits(headers, "In-Reply-To")]

Header(name, value) == [name |-> name, value |-> value]

\* a remote message (gmail_v1.Schema$Message) whose payload is a single
\* text/plain part holding the text, or no body at all
Raw(id, tid, labels, text, headers) ==
    [id |-> id, threadId |-> tid, snippet |-> "snip", labelIds |-> labels,
     payload |-> [headers |-> headers, mimeType |-> "text/plain",
                  data |-> IF text = "text" THEN "dGV4dA==" ELSE "", parts |-> <<>>]]

From == Header("From", "Alice <alice@x>")
To == Header("To", "me@x")

M1 == Raw("g1", "t1", {"INBOX", "UNREAD"}, "text",
          <<From, To, Header("Subject", "Q3 Planning"), Header("Date", "Jan 1"),
            Header("Message-ID", "<a@x>")>>)
M2 == Raw("g2", "t1", {"INBOX"}, "",
          <<From, To, Header("Date", "Jan 2"), Header("Message-Id", "<b@x>"),
            Header("References", CodeUnits("<a@x>"))>>)
M3 == Raw("g3", "t2", {"INBOX"}, "text",
          <<From, To, Header("subject", "Re: Q3 Planning"),
            Header("References", CodeUnits("<a@x>  <b@x>"))>>)
M4 == Raw("g4", "", {"INBOX"}, "text",
          <<From, To, Header("Subject", "no thread"), Header("Date", "Jan 3"),
            Header("Message-ID", "<d@x>")>>)
M5 == Raw("g5", "t3", {"INBOX"}, "text",
          <<From, To, Header("Date", "Jan 3"), Header("Message-ID", "<e@x>")>>)
\* no Date header, no References header, but In-Reply-To
M6 == Raw("g6", "t1", {"INBOX"}, "text",
          <<From, To, Header("Subject", "Re: Q3 Planning"),
            Header("Message-ID", "<c@x>"), Header("In-Reply-To", CodeUnits("<b@x>"))>>)
\* its References header repeats an entry and names the message itself; the
\* entries are separated by a vertical tab (U+000B), by a space, a no-break
\* space (U+00A0) and an em space (U+2003), and followed by an ideographic
\* space (U+3000)
M7 == Raw("g7", "t1", {"INBOX"}, "text",
          <<From, To, Header("Date", "Jan 3"), Header("Message-ID", "<b@x>"),
            Header("References",
                   CodeUnits("<a@x>") \o <<11>> \o CodeUnits("<b@x>")
                   \o <<32, 160, 8195>> \o CodeUnits("<a@x>") \o <<12288>>)>>)

\* dated, no References header, but In-Reply-To
M8 == Raw("g8", "t1", {"INBOX"}, "text",
          <<From, To, Header("Date", "Jan 3"), Header("Message-ID", "<f@x>"),
            Header("In-Reply-To", CodeUnits("<a@x>"))>>)

\* dated, without a From header
M9 == Raw("g9", "t1", {"INBOX"}, "text",
          <<To, Header("Date", "Jan 3"), Header("Message-ID", "<g@x>")>>)

\* no Date header and no Subject header
M10 == Raw("g10", "t1", {"INBOX"}, "text",
           <<From, To, Header("Message-ID", "<h@x>")>>)

\* the remote messages there are
MessagePool == {M1, M2, M3, M4, M5, M6, M7, M8, M9, M10}

\* parseGmailMessage over the pool, evaluated once
Parsed == [data \in MessagePool |-> ParseGmailMessage(data)]

\* the loop over the fetched messages: each is parsed and pushed
ParseAll(list) == [i \in DOMAIN list |-> Parsed[list[i]]]

\* ------------------------------------------------- reconciliation loop
\* parseDate: a missing or unparsable Date header gives the current time
ParseDate(value, now) == IF GetTime(value) = 0 THEN now ELSE GetTime(value)

\* subject of a payload in syncUserEmails
SyncSubject(m, thread) == Or(m.subject, Or(thread.subject, ""))

\* A subject that is the message's own and nothing else.
GetThreadSubjectOwn(m, mapped, requested) == m.subject

\* subject of a payload in getThread; requested is the thread being fetched
GetThreadSubject(m, mapped, requested) ==
    Or(m.subject, Or(mapped.subject, Or(requested.subject, "")))

\* A payload that is not filed under the local thread it was mapped to.
PayloadOfNoThread(m, thread, subject, u, now) ==
    [gmailId |-> m.id, threadId |-> 0, userId |-> u,
     from |-> m.from, to |-> m.to, subject |-> subject,
     body |-> Or(m.body, m.snippet), htmlBody |-> m.htmlBody,
     timestamp |-> ParseDate(m.date, now), isUnread |-> m.isUnread]

\* emailPayloads.push({...})
PayloadOf(m, thread, subject, u, now) ==
    [gmailId |-> m.id, threadId |-> thread.id, userId |-> u,
     from |-> m.from, to |-> m.to, subject |-> subject,
     body |-> Or(m.body, m.snippet), htmlBody |-> m.htmlBody,
     timestamp |-> ParseDate(m.date, now), isUnread |-> m.isUnread]

RECURSIVE Reconcile(_, _, _, _, _, _, _)
\* A variant of the loop that forgets the cache after each message.
ReconcileNoMemo(ms, i, cache, acc, requested, u, now) ==
    IF i > Len(ms) THEN [idx |-> i, payloads |-> acc, need |-> FALSE]
    ELSE LET m == ms[i]
         IN IF m.threadId = "" \/ m.id = ""
            THEN Reconcile(ms, i + 1, cache, acc, requested, u, now)
            ELSE IF m.threadId \in DOMAIN cache
                 THEN LET th == cache[m.threadId]
                          subject == IF requested = <<>>
                                     THEN SyncSubject(m, th)
                                     ELSE GetThreadSubject(m, th, requested[1])
                      IN Reconcile(ms, i + 1, <<>>,
                                   Append(acc, PayloadOf(m, th, subject, u, now)),
                                   requested, u, now)
                 ELSE [idx |-> i, payloads |-> acc, need |-> TRUE]

\* the for loop from message i on, up to the next message whose thread is
\* not in the cache (need) or to the end; requested is <<>> in syncUserEmails
Reconcile(ms, i, cache, acc, requested, u, now) ==
    IF i > Len(ms) THEN [idx |-> i, payloads |-> acc, need |-> FALSE]
    ELSE LET m == ms[i]
         IN IF m.threadId = "" \/ m.id = ""
            THEN Reconcile(ms, i + 1, cache, acc, requested, u, now)
            ELSE IF m.threadId \in DOMAIN cache
                 THEN LET th == cache[m.threadId]
                          subject == IF requested = <<>>
                                     THEN SyncSubject(m, th)
                                     ELSE GetThreadSubject(m, th, requested[1])
                      IN Reconcile(ms, i + 1, cache,
                                   Append(acc, PayloadOf(m, th, subject, u, now)),
                                   requested, u, now)
                 ELSE [idx |-> i, payloads |-> acc, need |-> TRUE]

\* the thread being fetched by getThread, <<>> in syncUserEmails
Requested(p) ==
    IF op[p] = "sync" THEN <<>> ELSE <<threadCache[p].requested>>

\* run the loop of request p from message i with the given cache
LoopFrom(p, ms, i, cache, acc) ==
    LET r == Reconcile(ms, i, cache.byGmailId, acc, Requested(p), caller[p], clock)
    IN /\ idx' = [idx EXCEPT ![p] = r.idx]
       /\ payloads' = [payloads EXCEPT ![p] = r.payloads]
       /\ threadCache' = [threadCache EXCEPT ![p] = cache]
       /\ clock' = clock + 1
       /\ pc' = [pc EXCEPT ![p] =
             IF r.need THEN "ens_find"
             ELSE IF op[p] = "sync" \/ r.payloads # <<>> THEN "batch_start"
                  ELSE "gt_refresh"]

EmptyCache == [byGmailId |-> <<>>, requested |-> <<>>]

\* A getThread without the re-mapping: a message of another remote thread is
\* filed under the requested thread.
EnsureFindRequested(p) ==
    /\ pc[p] = "ens_find"
    /\ LET m == msgs[p][idx[p]]
           found == FindThreadByGmailId(caller[p], m.threadId)
       IN IF op[p] = "getThread"
          THEN LoopFrom(p, msgs[p], idx[p],
                        [threadCache[p] EXCEPT !.byGmailId =
                             @ @@ (m.threadId :> threadCache[p].requested)],
                        payloads[p])
          ELSE IF found # <<>>
          THEN LoopFrom(p, msgs[p], idx[p],
                        [threadCache[p] EXCEPT !.byGmailId = @ @@ (m.threadId :> found[1])],
                        payloads[p])
          ELSE /\ pc' = [pc EXCEPT ![p] = "ens_create"]
               /\ UNCHANGED <<idx, payloads, threadCache, clock>>
    /\ UNCHANGED <<storeVars, op, itemPc, itemExisting, results, txOps, report,
                   injected, faultsLeft, driverVars, sideVars, tokens, envVars,
                   tok, msgs, log, result, reqThread, sent>>

\* ensureThread, first half: existing = await findThreadByGmailId(...)
EnsureFind(p) ==
    /\ pc[p] = "ens_find"
    /\ LET m == msgs[p][idx[p]]
           found == FindThreadByGmailId(caller[p], m.threadId)
       IN IF found # <<>>
          THEN LoopFrom(p, msgs[p], idx[p],
                        [threadCache[p] EXCEPT !.byGmailId = @ @@ (m.threadId :> found[1])],
                        payloads[p])
          ELSE /\ pc' = [pc EXCEPT ![p] = "ens_create"]
               /\ UNCHANGED <<idx, payloads, threadCache, clock>>
    /\ UNCHANGED <<storeVars, op, itemPc, itemExisting, results, txOps, report,
                   injected, faultsLeft, driverVars, sideVars, tokens, envVars,
                   tok, msgs, log, result, reqThread, sent>>

\* ensureThread, second half: return this.createThread(userId, gmailId, subject)
EnsureCreate(p) ==
    /\ pc[p] = "ens_create"
    /\ LET m == msgs[p][idx[p]]
           row == ThreadRow(nextId, caller[p], m.threadId, m.subject, clock)
       IN /\ threads' = Append(threads, row)
          /\ nextId' = nextId + 1
          /\ LoopFrom(p, msgs[p], idx[p],
                      [threadCache[p] EXCEPT !.byGmailId =
                           @ @@ (m.threadId :> MapToEmailThread(row, <<>>))],
                      payloads[p])
    /\ UNCHANGED <<emails, op, itemPc, itemExisting, results, txOps, report,
                   injected, faultsLeft, driverVars, sideVars, tokens, envVars,
                   tok, msgs, log, result, reqThread, sent>>

\* ------------------------------------------------------- executeWithUser
\* an executeWithUser without the catch: the exception reaches the caller
CaughtNowhere(p, e) ==
    /\ pc' = [pc EXCEPT ![p] = "threw"]
    /\ UNCHANGED result

\* an exception thrown inside the action: handleServiceError(error)
Caught(p, e) ==
    /\ result' = [result EXCEPT ![p] = HandleServiceError(e)]
    /\ pc' = [pc EXCEPT ![p] = "done"]

\* an interrupted batch whose writes so far stay in the store
BatchAbortPartial(p) ==
    /\ pc[p] = "batch_run"
    /\ faultsLeft > 0
    /\ faultsLeft' = faultsLeft - 1
    /\ emails' = ApplyOps(emails, txOps[p])
    /\ txOps' = [txOps EXCEPT ![p] = <<>>]
    /\ IF op[p] = "batch"
       THEN /\ pc' = [pc EXCEPT ![p] = "batch_aborted"]
            /\ UNCHANGED <<result, itemPc, itemExisting, results, injected>>
       ELSE /\ (\E e \in StorageFaults : Caught(p, e))
            /\ itemPc' = [itemPc EXCEPT ![p] = <<>>]
            /\ itemExisting' = [itemExisting EXCEPT ![p] = <<>>]
            /\ results' = [results EXCEPT ![p] = [i \in DOMAIN payloads[p] |-> NoResult]]
            /\ injected' = [injected EXCEPT ![p] = {}]
    /\ UNCHANGED <<threads, nextId, op, payloads, report, driverVars, sideVars,
                   tokens, clock, envVars, tok, msgs, idx, threadCache, log,
                   reqThread, sent>>

\* the transaction is interrupted before its commit (the process stops or
\* $transaction rejects): its writes are rolled back and no report is built.
\* upsertEmailsBatch then rejects: to the repository driver, or into the
\* catch of executeWithUser when syncUserEmails or getThread called it,
\* where the results of the items are dropped with the rejected promise
BatchAbort(p) ==
    /\ pc[p] = "batch_run"
    /\ faultsLeft > 0
    /\ faultsLeft' = faultsLeft - 1
    /\ txOps' = [txOps EXCEPT ![p] = <<>>]
    /\ IF op[p] = "batch"
       THEN /\ pc' = [pc EXCEPT ![p] = "batch_aborted"]
            /\ UNCHANGED <<result, itemPc, itemExisting, results, injected>>
       ELSE /\ (\E e \in StorageFaults : Caught(p, e))
            /\ itemPc' = [itemPc EXCEPT ![p] = <<>>]
            /\ itemExisting' = [itemExisting EXCEPT ![p] = <<>>]
            /\ results' = [results EXCEPT ![p] = [i \in DOMAIN payloads[p] |-> NoResult]]
            /\ injected' = [injected EXCEPT ![p] = {}]
    /\ UNCHANGED <<storeVars, op, payloads, report, driverVars, sideVars,
                   tokens, clock, envVars, tok, msgs, idx, threadCache, log,
                   reqThread, sent>>

\* a storage call of ensureThread throws; nothing in the loop catches it
EnsureFail(p) ==
    /\ pc[p] \in {"ens_find", "ens_create"}
    /\ faultsLeft > 0
    /\ faultsLeft' = faultsLeft - 1
    /\ (\E e \in StorageFaults : Caught(p, e))
    /\ UNCHANGED <<storeVars, op, batchVars, driverVars, sideVars, tokens, clock, envVars,
                   tok, msgs, idx, threadCache, log, reqThread, sent>>

\* --------------------------------------------------------- syncUserEmails
AuthErr == [kind |-> "auth", message |-> "Gmail error: Failed to fetch messages: Error: 401 Unauthorized"]
OtherErr == [kind |-> "other", message |-> "Gmail error: Failed to fetch messages: Error: socket hang up"]

\* /invalid authentication|unauthorized|401|403/i.test(msg): the patterns
\* are looked for without regard to case
IsAuthErr(e) ==
    \E pat \in {"invalid authentication", "unauthorized", "401", "403"} :
        Contains(ToLowerCase(e.message), pat)

\* the errors getMessages rejects with, and the test on each of them
FetchErrors == {AuthErr, OtherErr}
IsAuthErrOf == [e \in FetchErrors |-> IsAuthErr(e)]

\* a call to the remote mailbox: the credentials it was made with and how
\* it ended
Call(name, t, outcome) == [call |-> name, tokens |-> t, outcome |-> outcome]

\* a validateTokens call and what it returned
ValidateCall(t, v) ==
    [call |-> "validateTokens", tokens |-> t, outcome |-> v.kind,
     refreshed |-> v.refreshed, failed |-> v.failed, code |-> v.code]

\* executeWithUserAndTokens(firebaseUid, "access", ...): the user is looked
\* up and the stored tokens are read
SyncStart(p) ==
    /\ pc[p] = "idle"
    /\ opsLeft > 0
    /\ opsLeft' = opsLeft - 1
    /\ op' = [op EXCEPT ![p] = "sync"]
    /\ log' = [log EXCEPT ![p] = <<>>]
    /\ sent' = [sent EXCEPT ![p] = <<>>]
    /\ LET t == GetValidTokens(caller[p], "access")
       IN IF t = <<>>
          THEN /\ result' = [result EXCEPT ![p] = ErrRes("Gmail tokens not found")]
               /\ pc' = [pc EXCEPT ![p] = "done"]
               /\ UNCHANGED tok
          ELSE /\ tok' = [tok EXCEPT ![p] = t[1]]
               /\ pc' = [pc EXCEPT ![p] = "sync_fetch"]
               /\ result' = [result EXCEPT ![p] = NoRes]
    /\ UNCHANGED <<storeVars, batchVars, faultsLeft, driverVars, sideVars, tokens, clock,
                   remote, caller, msgs, idx, threadCache, reqThread>>

\* messages = await tryFetch(effectiveTokens), first attempt
SyncFetch(p) ==
    /\ pc[p] = "sync_fetch"
    /\ \/ /\ log' = [log EXCEPT ![p] = Append(@, Call("getMessages", tok[p], "ok"))]
          /\ msgs' = [msgs EXCEPT ![p] = ParseAll(remote)]
          /\ LoopFrom(p, ParseAll(remote), 1, EmptyCache, <<>>)
          /\ UNCHANGED result
       \/ /\ log' = [log EXCEPT ![p] = Append(@, Call("getMessages", tok[p], "auth"))]
          /\ IsAuthErrOf[AuthErr]
          /\ pc' = [pc EXCEPT ![p] = "sync_validate"]
          /\ UNCHANGED <<msgs, idx, payloads, threadCache, clock, result>>
       \/ /\ log' = [log EXCEPT ![p] = Append(@, Call("getMessages", tok[p], "other"))]
          /\ ~IsAuthErrOf[OtherErr]
          /\ Caught(p, ErrorOf(OtherErr.message))
          /\ UNCHANGED <<msgs, idx, payloads, threadCache, clock>>
    /\ UNCHANGED <<storeVars, op, itemPc, itemExisting, results, txOps, report,
                   injected, faultsLeft, driverVars, sideVars, tokens, envVars,
                   tok, reqThread, sent>>

\* validation = await validateTokens(effectiveTokens) after an auth error
SyncValidate(p) ==
    /\ pc[p] = "sync_validate"
    /\ \E v \in ValidateOutcomes(tok[p]) :
          /\ log' = [log EXCEPT ![p] = Append(@, ValidateCall(tok[p], v))]
          /\ IF v.kind = "invalid"
             THEN /\ Caught(p, ErrorOf(AuthErr.message))
                  /\ UNCHANGED tok
             ELSE IF v.kind = "throws"
             THEN /\ Caught(p, ErrorOf("Gmail error: Token validation failed"))
                  /\ UNCHANGED tok
             ELSE IF v.refreshed # <<>> /\ v.refreshed[1].accessToken # ""
             THEN /\ tok' = [tok EXCEPT ![p] = v.refreshed[1]]
                  /\ pc' = [pc EXCEPT ![p] = "sync_store"]
                  /\ UNCHANGED result
             ELSE /\ pc' = [pc EXCEPT ![p] = "sync_retry"]
                  /\ UNCHANGED <<tok, result>>
    /\ UNCHANGED <<storeVars, op, batchVars, faultsLeft, driverVars, sideVars, tokens, clock,
                   envVars, msgs, idx, threadCache, reqThread, sent>>

\* await this.userRepository.storeTokens(firebaseUid, effectiveTokens)
SyncStore(p) ==
    /\ pc[p] = "sync_store"
    /\ tokens' = [tokens EXCEPT ![caller[p]] = StoreTokens(@, tok[p])]
    /\ pc' = [pc EXCEPT ![p] = "sync_retry"]
    /\ UNCHANGED <<storeVars, op, batchVars, faultsLeft, driverVars, sideVars, clock,
                   envVars, orchVars>>

\* storeTokens throws (the storage call fails); nothing catches it before
\* executeWithUserAndTokens / getThread turn it into a failure result
StoreTokensFail(p) ==
    /\ pc[p] \in {"sync_store", "gt_store", "rp_store", "sn_store"}
    /\ faultsLeft > 0
    /\ faultsLeft' = faultsLeft - 1
    /\ (\E e \in StorageFaults : Caught(p, e))
    /\ UNCHANGED <<storeVars, op, batchVars, driverVars, sideVars, tokens, clock, envVars,
                   tok, msgs, idx, threadCache, log, reqThread, sent>>

\* A retry that fetches with the credentials the request started with.
SyncRetryStale(p) ==
    /\ pc[p] = "sync_retry"
    /\ \/ /\ log' = [log EXCEPT ![p] =
                 Append(@, Call("getMessages", log[p][1].tokens, "ok"))]
          /\ msgs' = [msgs EXCEPT ![p] = ParseAll(remote)]
          /\ LoopFrom(p, ParseAll(remote), 1, EmptyCache, <<>>)
          /\ UNCHANGED result
       \/ \E e \in FetchErrors :
          /\ log' = [log EXCEPT ![p] =
                 Append(@, Call("getMessages", log[p][1].tokens, e.kind))]
          /\ Caught(p, ErrorOf(e.message))
          /\ UNCHANGED <<msgs, idx, payloads, threadCache, clock>>
    /\ UNCHANGED <<storeVars, op, itemPc, itemExisting, results, txOps, report,
                   injected, faultsLeft, driverVars, sideVars, tokens, envVars,
                   tok, reqThread, sent>>

\* messages = await tryFetch(effectiveTokens), the retry: an error propagates
SyncRetry(p) ==
    /\ pc[p] = "sync_retry"
    /\ \/ /\ log' = [log EXCEPT ![p] = Append(@, Call("getMessages", tok[p], "ok"))]
          /\ msgs' = [msgs EXCEPT ![p] = ParseAll(remote)]
          /\ LoopFrom(p, ParseAll(remote), 1, EmptyCache, <<>>)
          /\ UNCHANGED result
       \/ \E e \in FetchErrors :
          /\ log' = [log EXCEPT ![p] = Append(@, Call("getMessages", tok[p], e.kind))]
          /\ Caught(p, ErrorOf(e.message))
          /\ UNCHANGED <<msgs, idx, payloads, threadCache, clock>>
    /\ UNCHANGED <<storeVars, op, itemPc, itemExisting, results, txOps, report,
                   injected, faultsLeft, driverVars, sideVars, tokens, envVars,
                   tok, reqThread, sent>>

RECURSIVE ErrorDetails(_)
\* upsertReport.errors.map(error => ({messageId: error.gmailId, error: error.error}))
ErrorDetails(errs) ==
    IF errs = <<>> THEN <<>>
    ELSE <<[messageId |-> Head(errs).gmailId, error |-> Head(errs).error]>>
         \o ErrorDetails(Tail(errs))

\* the batch returned: createSuccessResult({synced, errors, errorDetails})
SyncReturn(p) ==
    /\ pc[p] = "batch_ret"
    /\ op[p] = "sync"
    /\ LET details == ErrorDetails(report[p].errors)
       IN result' = [result EXCEPT ![p] =
              OkRes([synced |-> report[p].createdCount,
                     errors |-> Len(details),
                     errorDetails |-> details])]
    /\ pc' = [pc EXCEPT ![p] = "done"]
    /\ UNCHANGED <<storeVars, op, batchVars, faultsLeft, driverVars, sideVars, tokens, clock,
                   envVars, tok, msgs, idx, threadCache, log, reqThread, sent>>

\* --------------------------------------------------------------- getThread
\* gmail.users.threads.get: the messages of one remote thread
ThreadMessages(g) == ParseAll(SelectSeq(remote, LAMBDA m : m.threadId = g))

\* what threads.get may answer: the messages of the thread, or (a remote
\* that does not filter) messages of other threads as well
ThreadResponses(g) == {ThreadMessages(g), ParseAll(remote)}

ThreadData(thread, errs) == [thread |-> thread, upsertErrors |-> errs]

\* getThread(firebaseUid, threadId) is entered: executeWithUser finds the user
GetThreadStart(p, id) ==
    /\ pc[p] = "idle"
    /\ opsLeft > 0
    /\ opsLeft' = opsLeft - 1
    /\ op' = [op EXCEPT ![p] = "getThread"]
    /\ reqThread' = [reqThread EXCEPT ![p] = id]
    /\ log' = [log EXCEPT ![p] = <<>>]
    /\ sent' = [sent EXCEPT ![p] = <<>>]
    /\ result' = [result EXCEPT ![p] = NoRes]
    /\ pc' = [pc EXCEPT ![p] = "gt_find"]
    /\ UNCHANGED <<storeVars, batchVars, faultsLeft, driverVars, sideVars, tokens, clock,
                   remote, caller, tok, msgs, idx, threadCache>>

\* a getThread that asks for credentials whatever the thread
GetThreadFindNoLocal(p) ==
    /\ pc[p] = "gt_find"
    /\ LET thread == FindThreadById(reqThread[p])
       IN IF thread = <<>>
          THEN /\ result' = [result EXCEPT ![p] = ErrRes("Thread not found")]
               /\ pc' = [pc EXCEPT ![p] = "done"]
               /\ UNCHANGED threadCache
          ELSE /\ threadCache' = [threadCache EXCEPT ![p] =
                     [byGmailId |-> <<>>, requested |-> thread[1]]]
               /\ pc' = [pc EXCEPT ![p] = "gt_tokens"]
               /\ UNCHANGED result
    /\ UNCHANGED <<storeVars, op, batchVars, faultsLeft, driverVars, sideVars, tokens, clock,
                   envVars, tok, msgs, idx, log, reqThread, sent>>

\* thread = await findThreadById(threadId), and the checks that follow
GetThreadFind(p) ==
    /\ pc[p] = "gt_find"
    /\ LET thread == FindThreadById(reqThread[p])
       IN IF thread = <<>>
          THEN /\ result' = [result EXCEPT ![p] = ErrRes("Thread not found")]
               /\ pc' = [pc EXCEPT ![p] = "done"]
               /\ UNCHANGED threadCache
          ELSE IF thread[1].gmailId = ""
          THEN /\ result' = [result EXCEPT ![p] = OkRes(ThreadData(thread[1], <<>>))]
               /\ pc' = [pc EXCEPT ![p] = "done"]
               /\ UNCHANGED threadCache
          ELSE /\ threadCache' = [threadCache EXCEPT ![p] =
                     [byGmailId |-> <<>>, requested |-> thread[1]]]
               /\ pc' = [pc EXCEPT ![p] = "gt_tokens"]
               /\ UNCHANGED result
    /\ UNCHANGED <<storeVars, op, batchVars, faultsLeft, driverVars, sideVars, tokens, clock,
                   envVars, tok, msgs, idx, log, reqThread, sent>>

\* tokens = await getValidTokens(firebaseUid, "any")
GetThreadTokens(p) ==
    /\ pc[p] = "gt_tokens"
    /\ LET t == GetValidTokens(caller[p], "any")
       IN IF t = <<>>
          THEN /\ result' = [result EXCEPT ![p] = ErrRes("Gmail tokens not found")]
               /\ pc' = [pc EXCEPT ![p] = "done"]
               /\ UNCHANGED tok
          ELSE /\ tok' = [tok EXCEPT ![p] = t[1]]
               /\ pc' = [pc EXCEPT ![p] = "gt_validate"]
               /\ UNCHANGED result
    /\ UNCHANGED <<storeVars, op, batchVars, faultsLeft, driverVars, sideVars, tokens, clock,
                   envVars, msgs, idx, threadCache, log, reqThread, sent>>

\* ensureValidTokens, and the same steps at the head of replyToThread:
\* validation = await validateTokens(tokens); invalid is a returned failure
ValidateStep(p, here, store, next) ==
    /\ pc[p] = here
    /\ \E v \in ValidateOutcomes(tok[p]) :
          /\ log' = [log EXCEPT ![p] = Append(@, ValidateCall(tok[p], v))]
          /\ IF v.kind = "invalid"
             THEN /\ result' = [result EXCEPT ![p] = ErrRes("Gmail authentication required")]
                  /\ pc' = [pc EXCEPT ![p] = "done"]
                  /\ UNCHANGED tok
             ELSE IF v.kind = "throws"
             THEN /\ Caught(p, ErrorOf("Gmail error: Token validation failed"))
                  /\ UNCHANGED tok
             ELSE IF v.refreshed # <<>> /\ v.refreshed[1].accessToken # ""
             THEN /\ tok' = [tok EXCEPT ![p] = v.refreshed[1]]
                  /\ pc' = [pc EXCEPT ![p] = store]
                  /\ UNCHANGED result
             ELSE /\ pc' = [pc EXCEPT ![p] = next]
                  /\ UNCHANGED <<tok, result>>
    /\ UNCHANGED <<storeVars, op, batchVars, faultsLeft, driverVars, sideVars, tokens, clock,
                   envVars, msgs, idx, threadCache, reqThread, sent>>

\* a path that goes on with the refreshed pair without storing it
StoreStepSkipped(p, here, next) ==
    /\ pc[p] = here
    /\ pc' = [pc EXCEPT ![p] = next]
    /\ UNCHANGED <<storeVars, op, batchVars, faultsLeft, driverVars, sideVars, tokens, clock,
                   envVars, orchVars>>

\* await storeTokens(firebaseUid, refreshedTokens)
StoreStep(p, here, next) ==
    /\ pc[p] = here
    /\ tokens' = [tokens EXCEPT ![caller[p]] = StoreTokens(@, tok[p])]
    /\ pc' = [pc EXCEPT ![p] = next]
    /\ UNCHANGED <<storeVars, op, batchVars, faultsLeft, driverVars, sideVars, clock,
                   envVars, orchVars>>

GetThreadValidate(p) == ValidateStep(p, "gt_validate", "gt_store", "gt_fetch")
GetThreadStore(p) == StoreStep(p, "gt_store", "gt_fetch")

ThreadFetchErr == [kind |-> "other", message |-> "Gmail error: Failed to fetch thread"]

\* threadMessages = await getThreadMessages(effectiveTokens, thread.gmailId)
GetThreadFetch(p) ==
    /\ pc[p] = "gt_fetch"
    /\ LET requested == threadCache[p].requested
       IN \/ \E threadMessages \in ThreadResponses(requested.gmailId) :
             /\ log' = [log EXCEPT ![p] =
                    Append(@, Call("getThreadMessages", tok[p], "ok"))]
             /\ msgs' = [msgs EXCEPT ![p] = threadMessages]
             /\ report' = [report EXCEPT ![p] = EmptyReport]
             /\ LoopFrom(p, threadMessages, 1,
                         [byGmailId |-> (requested.gmailId :> requested),
                          requested |-> requested], <<>>)
             /\ UNCHANGED result
          \/ /\ log' = [log EXCEPT ![p] =
                    Append(@, Call("getThreadMessages", tok[p], "other"))]
             /\ Caught(p, ErrorOf(ThreadFetchErr.message))
             /\ UNCHANGED <<msgs, report, idx, payloads, threadCache, clock>>
    /\ UNCHANGED <<storeVars, op, itemPc, itemExisting, results, txOps,
                   injected, faultsLeft, driverVars, sideVars, tokens, envVars,
                   tok, reqThread, sent>>

\* refreshed = await findThreadById(threadId), and the result
GetThreadRefresh(p) ==
    /\ op[p] = "getThread"
    /\ pc[p] \in {"gt_refresh", "batch_ret"}
    /\ LET refreshed == FindThreadById(reqThread[p])
       IN result' = [result EXCEPT ![p] =
             IF refreshed = <<>> THEN ErrRes("Thread not found")
             ELSE IF Len(report[p].errors) > 0
             THEN [success |-> FALSE, error |-> "Some emails failed to upsert",
                   data |-> <<ThreadData(refreshed[1], report[p].errors)>>]
             ELSE OkRes(ThreadData(refreshed[1], <<>>))]
    /\ pc' = [pc EXCEPT ![p] = "done"]
    /\ UNCHANGED <<storeVars, op, batchVars, faultsLeft, driverVars, sideVars, tokens, clock,
                   envVars, tok, msgs, idx, threadCache, log, reqThread, sent>>

\* ----------------------------------------------------- reply construction
\* (a, b) => new Date(a.date).getTime() - new Date(b.date).getTime(), with a
\* NaN result taken as 0 by the sort
CompareDates(a, b) ==
    IF GetTime(a.date) = 0 \/ GetTime(b.date) = 0 THEN 0
    ELSE GetTime(a.date) - GetTime(b.date)

RECURSIVE RunEnd(_, _, _)
\* end of the initial run: ascending runs stop at the first order < 0,
\* descending runs at the first order >= 0
RunEnd(a, k, descending) ==
    IF k > Len(a) THEN k - 1
    ELSE LET order == CompareDates(a[k], a[k - 1])
         IN IF (descending /\ order >= 0) \/ (~descending /\ order < 0)
            THEN k - 1
            ELSE RunEnd(a, k + 1, descending)

Reverse(a) == [i \in 1..Len(a) |-> a[Len(a) + 1 - i]]

RECURSIVE BinarySearch(_, _, _, _)
\* position at which the pivot is inserted into a[1..right-1]
BinarySearch(a, pivot, left, right) ==
    IF left >= right THEN left
    ELSE LET mid == left + ((right - left) \div 2)
         IN IF CompareDates(pivot, a[mid]) < 0
            THEN BinarySearch(a, pivot, left, mid)
            ELSE BinarySearch(a, pivot, mid + 1, right)

RECURSIVE BinaryInsertionSort(_, _)
\* a[1..k-1] is sorted; insert a[k], a[k+1], ...
BinaryInsertionSort(a, k) ==
    IF k > Len(a) THEN a
    ELSE LET at == BinarySearch(a, a[k], 1, k)
             moved == SubSeq(a, 1, at - 1) \o <<a[k]>> \o SubSeq(a, at, k - 1)
                      \o SubSeq(a, k + 1, Len(a))
         IN BinaryInsertionSort(moved, k + 1)

\* [...threadMessages].sort(comparator) as the runtime sorts a short array:
\* the initial run is found (and reversed when descending), the rest is
\* inserted by binary insertion
SortMessages(ms) ==
    IF Len(ms) < 2 THEN ms
    ELSE LET descending == CompareDates(ms[2], ms[1]) < 0
             run == RunEnd(ms, 3, descending)
             first == IF descending
                      THEN Reverse(SubSeq(ms, 1, run)) \o SubSeq(ms, run + 1, Len(ms))
                      ELSE ms
         IN BinaryInsertionSort(first, run + 1)

\* \s of the regular expression, on a UTF-16 code unit: tab, line feed,
\* vertical tab, form feed, carriage return, space, no-break space, Ogham
\* space mark, en quad to hair space, line separator, paragraph separator,
\* narrow no-break space, medium mathematical space, ideographic space and
\* the byte order mark
IsSpace(c) ==
    c \in {9, 10, 11, 12, 13, 32, 160, 5760} \cup (8192..8202)
          \cup {8232, 8233, 8239, 8287, 12288, 65279}

RECURSIVE SkipSpaces(_, _)
SkipSpaces(s, i) ==
    IF i <= Len(s) /\ IsSpace(s[i]) THEN SkipSpaces(s, i + 1) ELSE i

RECURSIVE SplitFrom(_, _, _, _)
SplitFrom(s, i, cur, acc) ==
    IF i > Len(s) THEN Append(acc, cur)
    ELSE IF IsSpace(s[i])
         THEN SplitFrom(s, SkipSpaces(s, i), <<>>, Append(acc, cur))
         ELSE SplitFrom(s, i + 1, Append(cur, s[i]), acc)

\* value.split(/\s+/) on the code units of value: leading or trailing white
\* space yields empty entries
SplitWhitespace(s) == SplitFrom(s, 1, <<>>, <<>>)

\* .filter(Boolean) on strings held as code units; an undefined
\* messageIdHeader is dropped as well
FilterTruthy(l) == SelectSeq(l, LAMBDA x : x # <<>>)

RECURSIVE DedupeFrom(_, _)
DedupeFrom(l, acc) ==
    IF l = <<>> THEN acc
    ELSE IF Head(l) \in Range(acc) THEN DedupeFrom(Tail(l), acc)
         ELSE DedupeFrom(Tail(l), Append(acc, Head(l)))

\* Array.from(new Set(list)): first occurrences, in order
Dedupe(l) == DedupeFrom(l, <<>>)

\* the references list handed to sendReply, each entry as its code units
ReplyReferences(latest) ==
    Dedupe(FilterTruthy((IF latest.references # <<>>
                         THEN SplitWhitespace(latest.references) ELSE <<>>)
                        \o <<CodeUnits(latest.messageIdHeader)>>))

StartsWith(s, prefix) ==
    Len(s) >= Len(prefix) /\ SubSeq(s, 1, Len(prefix)) = prefix

\* subject of the reply
ReplySubject(thread, latest) ==
    LET baseSubject == Or(thread.subject, Or(latest.subject, ""))
    IN IF StartsWith(baseSubject, "Re:") THEN baseSubject
       ELSE IF baseSubject # "" THEN "Re: " \o baseSubject
       ELSE "Re:"

RECURSIVE IndexOfFrom(_, _, _)
\* first position >= i of character c in s, 0 if none
IndexOfFrom(s, c, i) ==
    IF i > Len(s) THEN 0
    ELSE IF SubSeq(s, i, i) = c THEN i
    ELSE IndexOfFrom(s, c, i + 1)

RECURSIVE AngleMatch(_, _)
\* value.match(/<([^>]+)>/) tried from position i: the captured group, or ""
AngleMatch(s, i) ==
    LET open == IndexOfFrom(s, "<", i)
        close == IF open = 0 THEN 0 ELSE IndexOfFrom(s, ">", open + 1)
    IN IF open = 0 \/ close = 0 THEN ""
       ELSE IF close > open + 1 THEN SubSeq(s, open + 1, close - 1)
       ELSE AngleMatch(s, open + 1)

\* extractEmailAddress(value)
ExtractEmailAddress(value) ==
    IF AngleMatch(value, 1) # "" THEN AngleMatch(value, 1) ELSE value

\* the options replyToThread hands to sendReply, from the requested thread,
\* the fetched messages and the body
ReplyOptions(thread, threadMessages, body) ==
    LET sortedMessages == SortMessages(threadMessages)
        latest == sortedMessages[Len(sortedMessages)]
    IN [threadId |-> thread.gmailId,
        to |-> ExtractEmailAddress(latest.from),
        subject |-> ReplySubject(thread, latest),
        body |-> body,
        inReplyTo |-> latest.messageIdHeader,
        references |-> ReplyReferences(latest)]

\* ------------------------------------------------------------ replyToThread
\* executeWithUserAndTokens(firebaseUid, "any", ...)
ReplyStart(p, id) ==
    /\ pc[p] = "idle"
    /\ opsLeft > 0
    /\ opsLeft' = opsLeft - 1
    /\ op' = [op EXCEPT ![p] = "reply"]
    /\ reqThread' = [reqThread EXCEPT ![p] = id]
    /\ log' = [log EXCEPT ![p] = <<>>]
    /\ sent' = [sent EXCEPT ![p] = <<>>]
    /\ LET t == GetValidTokens(caller[p], "any")
       IN IF t = <<>>
          THEN /\ result' = [result EXCEPT ![p] = ErrRes("Gmail tokens not found")]
               /\ pc' = [pc EXCEPT ![p] = "done"]
               /\ UNCHANGED tok
          ELSE /\ tok' = [tok EXCEPT ![p] = t[1]]
               /\ pc' = [pc EXCEPT ![p] = "rp_validate"]
               /\ result' = [result EXCEPT ![p] = NoRes]
    /\ UNCHANGED <<storeVars, batchVars, faultsLeft, driverVars, sideVars, tokens, clock,
                   remote, caller, msgs, idx, threadCache>>

\* a reply that goes on without asking validateTokens
ReplyValidateSkipped(p) ==
    /\ pc[p] = "rp_validate"
    /\ pc' = [pc EXCEPT ![p] = "rp_find"]
    /\ UNCHANGED <<storeVars, op, batchVars, faultsLeft, driverVars, sideVars, tokens, clock,
                   envVars, orchVars>>

ReplyValidate(p) == ValidateStep(p, "rp_validate", "rp_store", "rp_find")
ReplyStore(p) == StoreStep(p, "rp_store", "rp_find")

\* thread = await findThreadById(threadId)
ReplyFind(p) ==
    /\ pc[p] = "rp_find"
    /\ LET thread == FindThreadById(reqThread[p])
       IN IF thread = <<>>
          THEN /\ result' = [result EXCEPT ![p] = ErrRes("Thread not found")]
               /\ pc' = [pc EXCEPT ![p] = "done"]
               /\ UNCHANGED threadCache
          ELSE IF thread[1].gmailId = ""
          THEN /\ result' = [result EXCEPT ![p] =
                     ErrRes("Thread is missing Gmail metadata")]
               /\ pc' = [pc EXCEPT ![p] = "done"]
               /\ UNCHANGED threadCache
          ELSE /\ threadCache' = [threadCache EXCEPT ![p] =
                     [byGmailId |-> <<>>, requested |-> thread[1]]]
               /\ pc' = [pc EXCEPT ![p] = "rp_fetch"]
               /\ UNCHANGED result
    /\ UNCHANGED <<storeVars, op, batchVars, faultsLeft, driverVars, sideVars, tokens, clock,
                   envVars, tok, msgs, idx, log, reqThread, sent>>

\* A reply that goes on to send although the thread fetch failed.
ReplyFetchIgnoringFailure(p) ==
    /\ pc[p] = "rp_fetch"
    /\ LET thread == threadCache[p].requested
           threadMessages == ThreadMessages(thread.gmailId)
       IN /\ log' = [log EXCEPT ![p] =
                 Append(@, Call("getThreadMessages", tok[p], "other"))]
          /\ msgs' = [msgs EXCEPT ![p] = threadMessages]
          /\ IF threadMessages = <<>>
             THEN /\ Caught(p, ErrorOf(ThreadFetchErr.message))
                  /\ UNCHANGED sent
             ELSE /\ sent' = [sent EXCEPT ![p] =
                        <<ReplyOptions(thread, threadMessages, "reply body")>>]
                  /\ pc' = [pc EXCEPT ![p] = "rp_send"]
                  /\ UNCHANGED result
    /\ UNCHANGED <<storeVars, op, batchVars, faultsLeft, driverVars, sideVars, tokens, clock,
                   envVars, tok, idx, threadCache, reqThread>>

\* threadMessages = await getThreadMessages(...), then the reply is built
ReplyFetch(p) ==
    /\ pc[p] = "rp_fetch"
    /\ LET thread == threadCache[p].requested
           threadMessages == ThreadMessages(thread.gmailId)
       IN \/ /\ log' = [log EXCEPT ![p] =
                    Append(@, Call("getThreadMessages", tok[p], "ok"))]
             /\ msgs' = [msgs EXCEPT ![p] = threadMessages]
             /\ IF threadMessages = <<>>
                THEN /\ result' = [result EXCEPT ![p] =
                           ErrRes("No messages found in thread")]
                     /\ pc' = [pc EXCEPT ![p] = "done"]
                     /\ UNCHANGED sent
                ELSE IF SortMessages(threadMessages)[Len(threadMessages)].from = ""
                THEN /\ result' = [result EXCEPT ![p] =
                           ErrRes("Unable to determine recipient")]
                     /\ pc' = [pc EXCEPT ![p] = "done"]
                     /\ UNCHANGED sent
                ELSE /\ sent' = [sent EXCEPT ![p] =
                           <<ReplyOptions(thread, threadMessages, "reply body")>>]
                     /\ pc' = [pc EXCEPT ![p] = "rp_send"]
                     /\ UNCHANGED result
          \/ /\ log' = [log EXCEPT ![p] =
                    Append(@, Call("getThreadMessages", tok[p], "other"))]
             /\ Caught(p, ErrorOf(ThreadFetchErr.message))
             /\ UNCHANGED <<msgs, sent>>
    /\ UNCHANGED <<storeVars, op, batchVars, faultsLeft, driverVars, sideVars, tokens, clock,
                   envVars, tok, idx, threadCache, reqThread>>

\* A variant of the send step that tries a failed send again.
ReplySendRetrying(p) ==
    /\ pc[p] = "rp_send"
    /\ \/ /\ log' = [log EXCEPT ![p] = Append(@, Call("sendReply", tok[p], "ok"))]
          /\ op' = [op EXCEPT ![p] = "getThread"]
          /\ pc' = [pc EXCEPT ![p] = "gt_find"]
          /\ UNCHANGED result
       \/ /\ Len(SelectSeq(log[p], LAMBDA c : c.call = "sendReply")) < 2
          /\ log' = [log EXCEPT ![p] = Append(@, Call("sendReply", tok[p], "other"))]
          /\ UNCHANGED <<op, pc, result>>
       \/ /\ log' = [log EXCEPT ![p] = Append(@, Call("sendReply", tok[p], "other"))]
          /\ Caught(p, ErrorOf("Gmail error: Failed to send reply"))
          /\ UNCHANGED op
    /\ UNCHANGED <<storeVars, batchVars, faultsLeft, driverVars, sideVars, tokens, clock,
                   envVars, tok, msgs, idx, threadCache, reqThread, sent>>

\* await sendReply(effectiveTokens, {...}); return this.getThread(...)
ReplySend(p) ==
    /\ pc[p] = "rp_send"
    /\ \/ /\ log' = [log EXCEPT ![p] = Append(@, Call("sendReply", tok[p], "ok"))]
          /\ op' = [op EXCEPT ![p] = "getThread"]
          /\ pc' = [pc EXCEPT ![p] = "gt_find"]
          /\ UNCHANGED result
       \/ /\ log' = [log EXCEPT ![p] = Append(@, Call("sendReply", tok[p], "other"))]
          /\ Caught(p, ErrorOf("Gmail error: Failed to send reply"))
          /\ UNCHANGED op
    /\ UNCHANGED <<storeVars, batchVars, faultsLeft, driverVars, sideVars, tokens, clock,
                   envVars, tok, msgs, idx, threadCache, reqThread, sent>>

\* ------------------------------------------------------- sendNewEmail
\* ids the remote side answers a send with; result.data.id || "" gives the
\* empty string when the answer carries none
SentIds == {"", "s1"}

\* the mail of a sendNewEmail request
NewMail == [to |-> "bob@x", subject |-> "Hello", body |-> "Hi Bob"]

\* sendNewEmail enters executeWithUserAndTokens(firebaseUid, "any", ...)
SendNewStart(p) ==
    /\ pc[p] = "idle"
    /\ opsLeft > 0
    /\ opsLeft' = opsLeft - 1
    /\ op' = [op EXCEPT ![p] = "sendNew"]
    /\ reqThread' = [reqThread EXCEPT ![p] = 0]
    /\ log' = [log EXCEPT ![p] = <<>>]
    /\ sent' = [sent EXCEPT ![p] = <<>>]
    /\ LET t == GetValidTokens(caller[p], "any")
       IN IF t = <<>>
          THEN /\ result' = [result EXCEPT ![p] = ErrRes("Gmail tokens not found")]
               /\ pc' = [pc EXCEPT ![p] = "done"]
               /\ UNCHANGED tok
          ELSE /\ tok' = [tok EXCEPT ![p] = t[1]]
               /\ pc' = [pc EXCEPT ![p] = "sn_validate"]
               /\ result' = [result EXCEPT ![p] = NoRes]
    /\ UNCHANGED <<storeVars, batchVars, faultsLeft, driverVars, sideVars, tokens, clock,
                   remote, caller, msgs, idx, threadCache>>

SendNewValidate(p) == ValidateStep(p, "sn_validate", "sn_store", "sn_send")
SendNewStore(p) == StoreStep(p, "sn_store", "sn_send")

\* msgId = await sendEmail(effectiveTokens, to, subject, body)
SendNewSend(p) ==
    /\ pc[p] = "sn_send"
    /\ \/ \E id \in SentIds :
             /\ log' = [log EXCEPT ![p] = Append(@, Call("sendEmail", tok[p], "ok"))]
             /\ sent' = [sent EXCEPT ![p] = <<NewMail>>]
             /\ result' = [result EXCEPT ![p] = OkRes(id)]
             /\ pc' = [pc EXCEPT ![p] = "done"]
       \/ /\ log' = [log EXCEPT ![p] = Append(@, Call("sendEmail", tok[p], "other"))]
          /\ Caught(p, ErrorOf("Gmail error: Failed to send email"))
          /\ UNCHANGED sent
    /\ UNCHANGED <<storeVars, op, batchVars, faultsLeft, driverVars, sideVars, tokens, clock,
                   envVars, tok, msgs, idx, threadCache, reqThread>>

\* the steps of a sendNewEmail request
SendNewStep(p) ==
    \/ SendNewStart(p)
    \/ SendNewValidate(p)
    \/ SendNewStore(p)
    \/ SendNewSend(p)

\* ------------------------------------------------- repository-level driver
\* Inputs of the repository driver: two users, two remote ids, two contents.
Input(g, u, v) ==
    [gmailId |-> g, threadId |-> 100 + v, userId |-> u,
     from |-> "alice@x", to |-> "bob@x",
     subject |-> IF v = 1 THEN "Q3 Planning" ELSE "Re: Q3 Planning",
     body |-> IF v = 1 THEN "first" ELSE "second",
     htmlBody |-> IF v = 1 THEN "<p>first</p>" ELSE "",
     timestamp |-> v, isUnread |-> (v = 1)]

InputPool ==
    {Input("g1", "u1", 1), Input("g1", "u1", 2),
     Input("g2", "u1", 1), Input("g1", "u2", 2)}

\* the mailboxes synced: empty, one thread out of order, two threads, a
\* message without thread id, a thread whose first message has no subject
Mailboxes ==
    {<<>>, <<M2, M1>>, <<M1, M3>>, <<M3, M4, M1>>, <<M5, M2>>}

\* the mailboxes replied to: no message of the thread, the thread beside
\* another one, the thread out of order, a message without Date between
\* dated ones (with and without a subject of its own), a latest message
\* that repeats references, a latest message with In-Reply-To only, a
\* latest message without Date, a latest message without From
ReplyMailboxes ==
    {<<M3>>, <<M1, M3>>, <<M2, M1>>, <<M2, M6, M1>>, <<M2, M10, M1>>, <<M1, M7>>,
     <<M1, M8>>, <<M1, M6>>, <<M1, M9>>}

TokenStates ==
    {NoTokens,
     [accessToken |-> "a1", refreshToken |-> ""],
     [accessToken |-> "", refreshToken |-> "r1"],
     [accessToken |-> "a1", refreshToken |-> "r1"]}

\* nothing stored yet
InitStore ==
    /\ emails = <<>>
    /\ threads = <<>>
    /\ drafts = <<>>
    /\ nextId = 1

\* no request in flight
InitRequests ==
    /\ pc = [p \in Procs |-> "idle"]
    /\ op = [p \in Procs |-> "none"]
    /\ payloads = [p \in Procs |-> <<>>]
    /\ itemPc = [p \in Procs |-> <<>>]
    /\ itemExisting = [p \in Procs |-> <<>>]
    /\ results = [p \in Procs |-> <<>>]
    /\ txOps = [p \in Procs |-> <<>>]
    /\ report = [p \in Procs |-> EmptyReport]
    /\ injected = [p \in Procs |-> {}]
    /\ faultsLeft = MaxFaults
    /\ reports = <<>>
    /\ snaps = <<>>
    /\ clock = ClockStart
    /\ credentials = NoTokens
    /\ isRunning = FALSE
    /\ intervalId = 0
    /\ timers = {}
    /\ nextTimer = 1
    /\ runs = <<>>
    /\ lastCall = "none"
    /\ tok = [p \in Procs |-> NoTokens]
    /\ msgs = [p \in Procs |-> <<>>]
    /\ idx = [p \in Procs |-> 1]
    /\ threadCache = [p \in Procs |-> EmptyCache]
    /\ log = [p \in Procs |-> <<>>]
    /\ result = [p \in Procs |-> NoRes]
    /\ reqThread = [p \in Procs |-> 0]
    /\ sent = [p \in Procs |-> <<>>]

InitCommon == InitStore /\ InitRequests

InitBatch ==
    /\ InitCommon
    /\ batchIn \in SeqsUpTo(InputPool, MaxBatch)
    /\ tokens = [u \in Users |-> NoTokens]
    /\ remote = <<>>
    /\ caller = [p \in Procs |-> "u1"]
    /\ opsLeft = 0

\* the driver calls emailRepository.upsertEmailsBatch(batchIn)
DriverCall ==
    /\ pc["p1"] = "idle"
    /\ Len(reports) < MaxRuns
    /\ pc' = [pc EXCEPT !["p1"] = "batch_start"]
    /\ op' = [op EXCEPT !["p1"] = "batch"]
    /\ payloads' = [payloads EXCEPT !["p1"] = batchIn]
    /\ UNCHANGED <<storeVars, itemPc, itemExisting, results, txOps, report,
                   injected, faultsLeft, driverVars, sideVars,
                   tokens, clock, envVars, orchVars>>

\* the call returned: the driver keeps the report and the table it sees
DriverReturn ==
    /\ pc["p1"] = "batch_ret"
    /\ op["p1"] = "batch"
    /\ reports' = Append(reports, [report |-> report["p1"],
                                   injected |-> injected["p1"]])
    /\ snaps' = Append(snaps, emails)
    /\ pc' = [pc EXCEPT !["p1"] = "idle"]
    /\ UNCHANGED <<storeVars, op, batchVars, faultsLeft, batchIn, sideVars,
                   tokens, clock, envVars, orchVars>>

NextBatch ==
    \/ DriverCall
    \/ BatchBegin("p1")
    \/ \E i \in DOMAIN payloads["p1"] : UpsertFind("p1", i)
    \/ \E i \in DOMAIN payloads["p1"] : UpsertWrite("p1", i)
    \/ \E i \in DOMAIN payloads["p1"] : UpsertFail("p1", i)
    \/ BatchCommit("p1")
    \/ DriverReturn

SpecBatch == InitBatch /\ [][NextBatch]_vars

\* the repository driver with batches that may be interrupted
NextAbort == NextBatch \/ BatchAbort("p1")

SpecAbort == InitBatch /\ [][NextAbort]_vars

\* ------------------------------------------- the other writers of Email
\* the inputs of the direct calls: two contents for one (remote id, user)
RepoPool == {Input("g1", "u1", 1), Input("g1", "u1", 2)}

\* createEmail(emailData): a row is inserted without any lookup
CreateEmail(p, e) ==
    /\ pc[p] = "idle"
    /\ opsLeft > 0
    /\ opsLeft' = opsLeft - 1
    /\ op' = [op EXCEPT ![p] = "createEmail"]
    /\ emails' = Append(emails, EmailRow(nextId, e))
    /\ nextId' = nextId + 1
    /\ UNCHANGED <<threads, pc, batchVars, faultsLeft, driverVars, sideVars,
                   tokens, clock, remote, caller, orchVars>>

\* markAsRead(emailId): the row is updated to isUnread false; without such a
\* row the update rejects and nothing is written
MarkAsRead(p, emailId) ==
    /\ pc[p] = "idle"
    /\ opsLeft > 0
    /\ opsLeft' = opsLeft - 1
    /\ op' = [op EXCEPT ![p] = "markAsRead"]
    /\ emails' = [k \in DOMAIN emails |->
                     IF emails[k].id = emailId
                     THEN [emails[k] EXCEPT !.isUnread = FALSE]
                     ELSE emails[k]]
    /\ UNCHANGED <<threads, nextId, pc, batchVars, faultsLeft, driverVars,
                   sideVars, tokens, clock, remote, caller, orchVars>>

\* upsertEmail(emailData): upsertEmailInternal on the client itself, up to
\* the answer of its findFirst
UpsertEmailFind(p, e) ==
    /\ pc[p] = "idle"
    /\ opsLeft > 0
    /\ opsLeft' = opsLeft - 1
    /\ op' = [op EXCEPT ![p] = "upsertEmail"]
    /\ payloads' = [payloads EXCEPT ![p] = <<e>>]
    /\ itemPc' = [itemPc EXCEPT ![p] = <<"write">>]
    /\ itemExisting' = [itemExisting EXCEPT ![p] =
          <<FindFirstEmail(emails, e.gmailId, e.userId)>>]
    /\ results' = [results EXCEPT ![p] = <<NoResult>>]
    /\ txOps' = [txOps EXCEPT ![p] = <<>>]
    /\ injected' = [injected EXCEPT ![p] = {}]
    /\ pc' = [pc EXCEPT ![p] = "upsert_write"]
    /\ UNCHANGED <<storeVars, report, faultsLeft, driverVars, sideVars, tokens,
                   clock, remote, caller, orchVars>>

\* the rest of upsertEmail: the update or create is written at once (there
\* is no transaction), or it fails and the catch reports it; the result is
\* returned
UpsertEmailWrite(p) ==
    /\ pc[p] = "upsert_write"
    /\ LET e == payloads[p][1]
           ex == itemExisting[p][1]
       IN \/ /\ ex # 0 /\ HasId(emails, ex)
             /\ emails' = ApplyOps(emails, <<[kind |-> "update", id |-> ex,
                                              data |-> DataOf(e), row |-> <<>>]>>)
             /\ results' = [results EXCEPT ![p][1] =
                   OkResult(e, FALSE, UpdatedRow(RowById(emails, ex), e))]
             /\ UNCHANGED <<nextId, faultsLeft, injected>>
          \/ /\ ex = 0
             /\ emails' = Append(emails, EmailRow(nextId, e))
             /\ nextId' = nextId + 1
             /\ results' = [results EXCEPT ![p][1] =
                   OkResult(e, TRUE, EmailRow(nextId, e))]
             /\ UNCHANGED <<faultsLeft, injected>>
          \/ /\ faultsLeft > 0 \/ (ex # 0 /\ ~HasId(emails, ex))
             /\ faultsLeft' = IF ex # 0 /\ ~HasId(emails, ex) THEN faultsLeft
                              ELSE faultsLeft - 1
             /\ injected' = [injected EXCEPT ![p] = {1}]
             /\ \E message \in UpsertErrors :
                   results' = [results EXCEPT ![p][1] = ErrResult(e, message)]
             /\ UNCHANGED <<emails, nextId>>
    /\ itemPc' = [itemPc EXCEPT ![p] = <<"done">>]
    /\ pc' = [pc EXCEPT ![p] = "idle"]
    /\ UNCHANGED <<threads, op, payloads, itemExisting, txOps, report, driverVars,
                   sideVars, tokens, clock, envVars, orchVars>>

\* the repository with a batch caller and a caller of the single-row methods
InitRepo ==
    /\ InitCommon
    /\ batchIn \in SeqsUpTo(RepoPool, MaxBatch)
    /\ tokens = [u \in Users |-> NoTokens]
    /\ remote = <<>>
    /\ caller = [p \in Procs |-> "u1"]
    /\ opsLeft = MaxOps

NextRepo ==
    \/ NextBatch
    \/ \E e \in RepoPool : CreateEmail("p2", e)
    \/ \E emailId \in 1..(nextId - 1) : MarkAsRead("p2", emailId)
    \/ \E e \in RepoPool : UpsertEmailFind("p2", e)
    \/ UpsertEmailWrite("p2")

SpecRepo == InitRepo /\ [][NextRepo]_vars

\* ------------------------------------------------------------- C1, C2
\* C1: running upsertEmailsBatch twice in sequence on the same input list,
\* with no storage failure and no other writer, the second run reports
\* createdCount = 0, stores as many messages as the first run left, and
\* leaves every stored message as the first run left it.
C1_IdempotentUpsert ==
    (/\ Len(reports) = 2
     /\ reports[1].injected = {}
     /\ reports[2].injected = {})
    => /\ reports[2].report.createdCount = 0
       /\ Len(snaps[2]) = Len(snaps[1])
       /\ snaps[2] = snaps[1]

\* C2: a batch in which exactly one input k fails at the storage port
\* returns normally; its errors are exactly one entry, for k; every other
\* input is reported with success = TRUE and a message with its remote id
\* and user is stored.
C2_PartialFailureIsolation ==
    /\ pc["p1"] # "batch_threw"
    /\ (pc["p1"] = "batch_ret" /\ Cardinality(injected["p1"]) = 1)
       => LET k == CHOOSE k \in injected["p1"] : TRUE
              ins == payloads["p1"]
          IN /\ Len(report["p1"].errors) = 1
             /\ report["p1"].errors[1].gmailId = ins[k].gmailId
             /\ report["p1"].errors[1].error \in UpsertErrors
             /\ \A i \in DOMAIN ins \ {k} :
                    /\ report["p1"].results[i].success
                    /\ report["p1"].results[i].gmailId = ins[i].gmailId
                    /\ \E r \in Range(emails) :
                          r.gmailId = ins[i].gmailId /\ r.userId = ins[i].userId

\* a returned batch of two inputs in which the first one failed
C2_Witness ==
    /\ pc["p1"] = "batch_ret"
    /\ Len(payloads["p1"]) >= 2
    /\ injected["p1"] = {1}
    /\ report["p1"].results[2].success

\* ---------------------------------------------------- service-level driver
\* One request at a time: the driver starts up to MaxOps operations of user
\* u1, each after the previous one returned.
\* what an earlier sync of <<M1>> and a locally created thread left behind
SeedThreads ==
    <<ThreadRow(1, "u1", "t1", "Q3 Planning", ClockStart - 2),
      ThreadRow(2, "u1", "", "Local notes", ClockStart - 1)>>

SeedEmails ==
    <<EmailRow(3, PayloadOf(Parsed[M1], SeedThreads[1], "Q3 Planning",
                            "u1", ClockStart))>>

\* the stores a session starts from: fresh, or the rows of an earlier session
Stores == {<<<<>>, <<>>, 1>>, <<SeedEmails, SeedThreads, 4>>}

\* the stores replied to: also the thread an earlier sync of <<M2>> created,
\* whose first message had no subject
ReplyStores == Stores \cup {<<<<>>, <<ThreadRow(1, "u1", "t1", "", ClockStart - 1)>>, 2>>}

\* The store is one of stores (emails, threads, next id); the stored tokens
\* are any of the four combinations.
InitService(boxes, stores) ==
    /\ InitRequests
    /\ \E s \in stores : emails = s[1] /\ threads = s[2] /\ nextId = s[3]
    /\ drafts = <<>>
    /\ batchIn = <<>>
    /\ \E t \in TokenStates : tokens = [u \in Users |-> IF u = "u1" THEN t ELSE NoTokens]
    /\ remote \in boxes
    /\ caller = [p \in Procs |-> "u1"]
    /\ opsLeft = MaxOps

InitOrch == InitService(Mailboxes, Stores)

\* the operation returned its result to the caller: the locals of the
\* request are gone, the next one may start
Finish(p) ==
    /\ pc[p] = "done"
    /\ opsLeft > 0
    /\ pc' = [pc EXCEPT ![p] = "idle"]
    /\ op' = [op EXCEPT ![p] = "none"]
    /\ payloads' = [payloads EXCEPT ![p] = <<>>]
    /\ itemPc' = [itemPc EXCEPT ![p] = <<>>]
    /\ itemExisting' = [itemExisting EXCEPT ![p] = <<>>]
    /\ results' = [results EXCEPT ![p] = <<>>]
    /\ txOps' = [txOps EXCEPT ![p] = <<>>]
    /\ report' = [report EXCEPT ![p] = EmptyReport]
    /\ injected' = [injected EXCEPT ![p] = {}]
    /\ tok' = [tok EXCEPT ![p] = NoTokens]
    /\ msgs' = [msgs EXCEPT ![p] = <<>>]
    /\ idx' = [idx EXCEPT ![p] = 1]
    /\ threadCache' = [threadCache EXCEPT ![p] = EmptyCache]
    /\ log' = [log EXCEPT ![p] = <<>>]
    /\ result' = [result EXCEPT ![p] = NoRes]
    /\ reqThread' = [reqThread EXCEPT ![p] = 0]
    /\ sent' = [sent EXCEPT ![p] = <<>>]
    /\ UNCHANGED <<storeVars, faultsLeft, driverVars, sideVars, tokens, clock, envVars>>

\* the steps of request p that follow the start of an operation and are
\* shared by the operations: getThread (also run at the end of a reply), the
\* reconciliation loop and the batch upsert
SharedStep(p) ==
    \/ GetThreadFind(p)
    \/ GetThreadTokens(p)
    \/ GetThreadValidate(p)
    \/ GetThreadStore(p)
    \/ GetThreadFetch(p)
    \/ GetThreadRefresh(p)
    \/ StoreTokensFail(p)
    \/ EnsureFind(p)
    \/ EnsureCreate(p)
    \/ EnsureFail(p)
    \/ BatchBegin(p)
    \/ \E i \in DOMAIN payloads[p] : UpsertFind(p, i)
    \/ \E i \in DOMAIN payloads[p] : UpsertWrite(p, i)
    \/ \E i \in DOMAIN payloads[p] : UpsertFail(p, i)
    \/ BatchCommit(p)
    \/ BatchAbort(p)
    \/ Finish(p)

\* the steps of a syncUserEmails or getThread request
SyncOrGetStep(p) ==
    \/ SyncStart(p)
    \/ SyncFetch(p)
    \/ SyncValidate(p)
    \/ SyncStore(p)
    \/ SyncRetry(p)
    \/ SyncReturn(p)
    \/ \E id \in 0..nextId - 1 : GetThreadStart(p, id)

\* one request at a time syncs, reads a thread or sends a new mail
NextOrch == SyncOrGetStep("p1") \/ SharedStep("p1") \/ SendNewStep("p1")

SpecOrch == InitOrch /\ [][NextOrch]_vars

\* --------------------------------------------------- concurrent requests
\* both tokens present, nothing to refresh
GoodTokens == [accessToken |-> "a1", refreshToken |-> "r1"]

\* Two requests of the same user in flight at once: the store is empty, or
\* holds the user's thread t1 left by an earlier sync.
InitConc ==
    /\ InitRequests
    /\ emails = <<>>
    /\ drafts = <<>>
    /\ \/ threads = <<>> /\ nextId = 1
       \/ threads = <<ThreadRow(1, "u1", "t1", "Q3 Planning", ClockStart - 1)>> /\ nextId = 2
    /\ batchIn = <<>>
    /\ tokens = [u \in Users |-> IF u = "u1" THEN GoodTokens ELSE NoTokens]
    /\ remote = <<M1, M2>>
    /\ caller = [p \in Procs |-> "u1"]
    /\ opsLeft = MaxOps

\* one step of request p
Step(p) == SyncOrGetStep(p) \/ SharedStep(p)

NextConc == \E p \in Procs : Step(p)

SpecConc == InitConc /\ [][NextConc]_vars

\* C3: under any interleaving of syncUserEmails and getThread requests of
\* one user, the store never holds two messages with the same remote
\* message id and the same user.
C3_MessageUnique ==
    \A i, j \in DOMAIN emails :
        (emails[i].gmailId = emails[j].gmailId /\ emails[i].userId = emails[j].userId)
        => i = j

\* C4: under any interleaving of requests of one user, the store never
\* holds two threads with the same user and the same remote thread id.
C4_ThreadUnique ==
    \A i, j \in DOMAIN threads :
        (threads[i].gmailId = threads[j].gmailId /\ threads[i].userId = threads[j].userId)
        => i = j

\* the fetch attempts (getMessages calls) of request p so far
Fetches(p) == SelectSeq(log[p], LAMBDA c : c.call = "getMessages")

\* the first fetch of p met an auth-shaped error and validateTokens then
\* returned valid with refreshed credentials
RefreshedAfterAuthError(p) ==
    /\ op[p] = "sync"
    /\ Len(log[p]) >= 2
    /\ log[p][1] = Call("getMessages", log[p][1].tokens, "auth")
    /\ log[p][2].call = "validateTokens"
    /\ log[p][2].outcome = "valid"
    /\ log[p][2].refreshed # <<>>

\* C5: a syncUserEmails call never makes more than two fetch attempts; when
\* the first fetch fails with an auth-shaped error and validateTokens returns
\* refreshed credentials, the one retry that follows (once the credentials
\* are stored) is made with the refreshed credentials; and when the second
\* attempt fails, the call ends with that error as its failure result.
C5_AuthRetryOnce ==
    \A p \in Procs :
        op[p] = "sync" =>
            /\ Len(Fetches(p)) <= 2
            /\ RefreshedAfterAuthError(p) =>
                  \/ pc[p] \in {"sync_store", "sync_retry"} /\ Len(log[p]) = 2
                  \/ /\ pc[p] \in {"done", "idle"} /\ Len(log[p]) = 2
                     /\ result[p] \in StorageFailures
                  \/ /\ Len(log[p]) = 3
                     /\ log[p][3].call = "getMessages"
                     /\ log[p][3].tokens = log[p][2].refreshed[1]
            /\ (Len(Fetches(p)) = 2 /\ Fetches(p)[2].outcome # "ok") =>
                  /\ pc[p] \in {"done", "idle"}
                  /\ ~result[p].success
                  /\ result[p].error \in {AuthErr.message, OtherErr.message}
                  /\ (Fetches(p)[2].outcome = "auth") = (result[p].error = AuthErr.message)

\* C5 witness: the first fetch failed with an auth error, the credentials
\* were refreshed, the retry was made with them and failed too.
C5_Witness ==
    /\ RefreshedAfterAuthError("p1")
    /\ Len(Fetches("p1")) = 2
    /\ Fetches("p1")[2].tokens.accessToken = FreshAccess
    /\ Fetches("p1")[2].outcome = "auth"
    /\ result["p1"] = ErrRes(AuthErr.message)

\* only a refresh token, no access token
RefreshOnly(t) == t.accessToken = "" /\ t.refreshToken # ""

\* the state part of C6
TokenPolicyState ==
    \A p \in Procs :
        /\ (op[p] = "sync" /\ RefreshOnly(tokens[caller[p]])) =>
              /\ log[p] = <<>>
              /\ pc[p] \in {"done", "idle"}
              /\ ~result[p].success
        /\ (op[p] \in {"getThread", "reply"} /\ pc[p] \in {"done", "idle"}
            /\ result[p] = ErrRes("Gmail tokens not found")) =>
              tokens[caller[p]] = NoTokens

\* the step part of C6
TokenPolicyStep ==
    \A p \in Procs :
        /\ (pc[p] = "gt_tokens" /\ RefreshOnly(tokens[caller[p]]) /\ pc'[p] # pc[p]) =>
              pc'[p] = "gt_validate" /\ tok'[p] = tokens[caller[p]]
        /\ (pc[p] = "idle" /\ op'[p] = "reply" /\ RefreshOnly(tokens[caller[p]])) =>
              pc'[p] = "rp_validate" /\ tok'[p] = tokens[caller[p]]
        /\ (pc[p] \in {"gt_validate", "rp_validate"} /\ pc'[p] # pc[p]) =>
              /\ Len(log'[p]) = Len(log[p]) + 1
              /\ log'[p][Len(log'[p])].call = "validateTokens"
              /\ log'[p][Len(log'[p])].tokens = tok[p]

\* C6: with only a refresh token stored, syncUserEmails ends in a failure
\* result and makes no remote call, while getThread (for a thread that has a
\* remote id) and replyToThread pass the token gate with the refresh-only
\* pair and go on to the remote validateTokens call; they report missing
\* tokens only when neither token is stored.
C6_TokenPolicy == []TokenPolicyState /\ [][TokenPolicyStep]_vars

\* C6 witness: a replyToThread that started with only a refresh token has
\* made its validateTokens call with that pair, has sent the reply and,
\* in the getThread that ends it, has fetched the remote thread.
C6_Witness ==
    /\ sent["p1"] # <<>>
    /\ Len(log["p1"]) >= 3
    /\ log["p1"][1].call = "validateTokens"
    /\ RefreshOnly(log["p1"][1].tokens)
    /\ \E i, j \in DOMAIN log["p1"] :
          /\ i < j
          /\ log["p1"][i].call = "sendReply"
          /\ log["p1"][j].call = "getThreadMessages"

\* ------------------------------------------------- sync of a fresh store
\* a fresh sync also meets three messages over two threads
FreshMailboxes == Mailboxes \cup {<<M1, M2, M3>>}

\* the service driver started on an empty store
InitFresh == InitService(FreshMailboxes, Stores) /\ InitStore

SpecFresh == InitFresh /\ [][NextOrch]_vars

\* the first operation of p was a sync whose fetch succeeded, no storage
\* call failed, and every fetched message has an id and a thread id, the ids
\* being distinct
FreshSyncDone(p) ==
    /\ op[p] = "sync"
    /\ opsLeft = MaxOps - 1
    /\ pc[p] \in {"done", "idle"}
    /\ faultsLeft = MaxFaults
    /\ log[p] # <<>>
    /\ log[p][Len(log[p])] = Call("getMessages", tok[p], "ok")
    /\ \A i \in DOMAIN msgs[p] : msgs[p][i].id # "" /\ msgs[p][i].threadId # ""
    /\ \A i, j \in DOMAIN msgs[p] : msgs[p][i].id = msgs[p][j].id => i = j

\* C7: a sync of an empty store whose fetch returns n messages with distinct
\* ids over m remote threads reports synced = n and errors = 0, and leaves
\* exactly m threads and n messages of the user, each message under the
\* local thread of its own remote thread id.
C7_FreshSyncAccounting ==
    \A p \in Procs :
        FreshSyncDone(p) =>
            LET u == caller[p]
                n == Len(msgs[p])
                remoteThreads == {msgs[p][i].threadId : i \in DOMAIN msgs[p]}
                mine == {i \in DOMAIN emails : emails[i].userId = u}
                myThreads == {i \in DOMAIN threads : threads[i].userId = u}
            IN /\ result[p] = OkRes([synced |-> n, errors |-> 0, errorDetails |-> <<>>])
               /\ Cardinality(myThreads) = Cardinality(remoteThreads)
               /\ Cardinality(mine) = n
               /\ \A k \in DOMAIN msgs[p] :
                     \E i \in mine, j \in myThreads :
                        /\ emails[i].gmailId = msgs[p][k].id
                        /\ emails[i].threadId = threads[j].id
                        /\ threads[j].gmailId = msgs[p][k].threadId

\* C7 witness: three messages over two remote threads were synced into the
\* empty store.
C7_Witness ==
    /\ FreshSyncDone("p1")
    /\ msgs["p1"] = ParseAll(<<M1, M2, M3>>)
    /\ Len(emails) = 3
    /\ Len(threads) = 2

\* ms is in non-decreasing timestamp order
Chronological(ms) ==
    \A i, j \in DOMAIN ms : i < j => ms[i].timestamp <= ms[j].timestamp

\* the Thread values handed out: what the repository reads return on the
\* current store, what the requests hold in their caches, and the threads in
\* the results of getThread and replyToThread
ReturnedThreads ==
    UNION {Range(FindThreadById(threads[i].id)) : i \in DOMAIN threads}
    \cup UNION {Range(FindThreadByGmailId(threads[i].userId, threads[i].gmailId)) :
                   i \in DOMAIN threads}
    \cup UNION {Range(threadCache[p].byGmailId) : p \in Procs}
    \cup {threadCache[p].requested :
             p \in {q \in Procs : DOMAIN threadCache[q].requested # {}}}
    \cup {result[p].data[1].thread :
             p \in {q \in Procs : op[q] = "getThread" /\ result[q].data # <<>>}}

\* C8: every Thread returned by the repository or by getThread /
\* replyToThread lists its messages in non-decreasing timestamp order.
C8_ThreadOrdering == \A t \in ReturnedThreads : Chronological(t.messages)

\* C8 witness: getThread returned a thread of two or more messages whose
\* rows were stored in another order than their timestamps.
C8_Witness ==
    /\ op["p1"] = "getThread"
    /\ result["p1"].success
    /\ Len(result["p1"].data[1].thread.messages) >= 2
    /\ \E i, j \in DOMAIN emails :
          /\ i < j
          /\ emails[i].threadId = result["p1"].data[1].thread.id
          /\ emails[j].threadId = result["p1"].data[1].thread.id
          /\ emails[i].timestamp > emails[j].timestamp

\* the fetched messages of p that the loop does not skip
Reconciled(p) == SelectSeq(msgs[p], LAMBDA m : m.id # "" /\ m.threadId # "")

\* the stored subject of the local thread with the given id
ThreadSubject(id) == threads[CHOOSE i \in DOMAIN threads : threads[i].id = id].subject

\* the subject the fallback rule gives the k-th reconciled message of p when
\* its own subject is empty
FallbackSubject(p, k) ==
    LET mapped == ThreadSubject(payloads[p][k].threadId)
    IN IF mapped # "" THEN mapped
       ELSE IF op[p] = "getThread" /\ threadCache[p].requested.subject # ""
            THEN threadCache[p].requested.subject
            ELSE ""

\* C9: once the loop of a sync or getThread has built its payloads, every
\* message fetched with an empty subject carries the subject of the thread
\* it is mapped to, else (in getThread) that of the requested thread, else
\* "", and the row stored for it holds that subject.
C9_SubjectFallback ==
    \A p \in Procs :
        pc[p] \in {"batch_start", "batch_run", "batch_ret"} =>
            /\ Len(payloads[p]) = Len(Reconciled(p))
            /\ \A k \in DOMAIN payloads[p] :
                  Reconciled(p)[k].subject = "" =>
                     /\ payloads[p][k].subject = FallbackSubject(p, k)
                     /\ (pc[p] = "batch_ret" /\ report[p].results[k].success) =>
                           \E i \in DOMAIN emails :
                              /\ emails[i].id = report[p].results[k].email[1].id
                              /\ emails[i].gmailId = Reconciled(p)[k].id
                              /\ emails[i].subject = FallbackSubject(p, k)

\* C9 witness: getThread stored a message without subject, mapped to a
\* thread without subject, under the subject of the requested thread.
C9_Witness ==
    /\ op["p1"] = "getThread"
    /\ pc["p1"] = "batch_ret"
    /\ \E k \in DOMAIN payloads["p1"] :
          /\ Reconciled("p1")[k].subject = ""
          /\ ThreadSubject(payloads["p1"][k].threadId) = ""
          /\ report["p1"].results[k].success
          /\ \E i \in DOMAIN emails :
                /\ emails[i].gmailId = Reconciled("p1")[k].id
                /\ emails[i].subject = "Q3 Planning"

\* ------------------------------------------------------- a second user
\* user u2 signs in to a store that holds the rows of user u1
InitCross ==
    /\ InitRequests
    /\ emails = SeedEmails /\ threads = SeedThreads /\ nextId = 4
    /\ drafts = <<>>
    /\ batchIn = <<>>
    /\ tokens = [u \in Users |-> GoodTokens]
    /\ remote \in {<<M2, M1>>, <<M1, M2, M3>>}
    /\ caller = [p \in Procs |-> "u2"]
    /\ opsLeft = MaxOps

SpecCross == InitCross /\ [][NextOrch]_vars

\* ------------------------------------------------- failing storage reads
\* operation o is entered and the user lookup of executeWithUser throws or
\* finds no user, or (sync, reply) the token read of getValidTokens throws
StartFail(p, o) ==
    /\ pc[p] = "idle"
    /\ opsLeft > 0
    /\ faultsLeft > 0
    /\ opsLeft' = opsLeft - 1
    /\ faultsLeft' = faultsLeft - 1
    /\ op' = [op EXCEPT ![p] = o]
    /\ reqThread' = [reqThread EXCEPT ![p] = 0]
    /\ log' = [log EXCEPT ![p] = <<>>]
    /\ sent' = [sent EXCEPT ![p] = <<>>]
    /\ \/ \E e \in StorageFaults : Caught(p, e)
       \/ /\ result' = [result EXCEPT ![p] = ErrRes("User not found")]
          /\ pc' = [pc EXCEPT ![p] = "done"]
    /\ UNCHANGED <<storeVars, batchVars, driverVars, sideVars, tokens, clock, remote, caller,
                   tok, msgs, idx, threadCache>>

\* findThreadById (before the fetch or after the batch) or the token read
\* of getThread throws
LookupFail(p) ==
    /\ \/ pc[p] \in {"gt_find", "gt_tokens", "rp_find", "gt_refresh"}
       \/ pc[p] = "batch_ret" /\ op[p] = "getThread"
    /\ faultsLeft > 0
    /\ faultsLeft' = faultsLeft - 1
    /\ (\E e \in StorageFaults : Caught(p, e))
    /\ UNCHANGED <<storeVars, op, batchVars, driverVars, sideVars, tokens, clock, envVars,
                   tok, msgs, idx, threadCache, log, reqThread, sent>>

\* ----------------------------------------------------------- replies
\* one request at a time replies to a thread or reads one
NextReply ==
    \/ \E id \in 0..nextId - 1 : ReplyStart("p1", id)
    \/ \E id \in 0..nextId - 1 : GetThreadStart("p1", id)
    \/ ReplyValidate("p1")
    \/ ReplyStore("p1")
    \/ ReplyFind("p1")
    \/ ReplyFetch("p1")
    \/ ReplySend("p1")
    \/ SharedStep("p1")

InitReply == InitService(ReplyMailboxes, ReplyStores)

SpecReply == InitReply /\ [][NextReply]_vars

\* one request at a time, any of the three operations, and any storage
\* read may fail as well
NextFault ==
    \/ NextOrch
    \/ NextReply
    \/ \E o \in {"sync", "getThread", "reply", "sendNew"} : StartFail("p1", o)
    \/ LookupFail("p1")

InitFault == InitService({<<M1, M3>>, <<M2, M1>>}, Stores)

SpecFault == InitFault /\ [][NextFault]_vars

\* one request at a time, any of the operations of the service
NextService == NextOrch \/ NextReply

SpecService == InitFault /\ [][NextService]_vars

\* the remote messages of the thread p replies to, as the remote holds them
RepliedThread(p) ==
    SelectSeq(remote, LAMBDA m : m.threadId = threadCache[p].requested.gmailId)

\* the instant of a remote message, 0 when its Date header is missing
DateOf(m) == GetTime(GetHeader(m.payload.headers, "Date"))

\* m is a most recent message of ms: none is dated later.  A message
\* without a parsable Date counts either as the newest (it is stored with
\* the time of the sync) or not at all; both readings are accepted.
MostRecent(m, ms) ==
    \/ \A i \in DOMAIN ms : DateOf(ms[i]) # 0 => (DateOf(m) = 0 \/ DateOf(m) >= DateOf(ms[i]))
    \/ DateOf(m) # 0 /\ \A i \in DOMAIN ms : DateOf(m) >= DateOf(ms[i])

\* s[i..j] is an entry that white space separates in the code units s: a
\* run of characters that are not white space which cannot be extended
EntryAt(s, i, j) ==
    /\ i <= j
    /\ \A k \in i..j : ~IsSpace(s[k])
    /\ i = 1 \/ IsSpace(s[i - 1])
    /\ j = Len(s) \/ IsSpace(s[j + 1])

\* the entries that white space separates in s
EntrySet(s) ==
    {SubSeq(s, ij[1], ij[2]) :
        ij \in {ij \in (DOMAIN s) \X (DOMAIN s) : EntryAt(s, ij[1], ij[2])}}

\* the places at which entry x starts in s
StartsOf(s, x) ==
    {i \in DOMAIN s : \E j \in i..Len(s) : EntryAt(s, i, j) /\ SubSeq(s, i, j) = x}

\* where x first occurs in the entries of s followed by one more entry
FirstPlace(s, x) ==
    IF StartsOf(s, x) # {}
    THEN CHOOSE i \in StartsOf(s, x) : \A k \in StartsOf(s, x) : i <= k
    ELSE Len(s) + 1

\* refs is the duplicate-free union, in order, of the entries that white
\* space separates in s, followed by mid (left out when there is none)
OrderedUnion(refs, s, mid) ==
    /\ \A i, j \in DOMAIN refs : refs[i] = refs[j] => i = j
    /\ Range(refs) = EntrySet(s) \cup ({mid} \ {<<>>})
    /\ \A i, j \in DOMAIN refs : i < j => FirstPlace(s, refs[i]) < FirstPlace(s, refs[j])

\* C10: the reply handed to sendReply names a most recent message of the
\* thread: its In-Reply-To is that message's Message-ID header, and its
\* References are the duplicate-free union, in order, of the white-space
\* separated entries of that message's References header followed by its
\* Message-ID header.
C10_ReplyReferences ==
    \A p \in Procs :
        pc[p] = "rp_send" =>
            \E k \in DOMAIN RepliedThread(p) :
                LET m == RepliedThread(p)[k]
                    mid == GetHeader(m.payload.headers, "Message-ID")
                    refs == GetHeaderUnits(m.payload.headers, "References")
                IN /\ MostRecent(m, RepliedThread(p))
                   /\ sent[p][1].inReplyTo = mid
                   /\ OrderedUnion(sent[p][1].references, refs, CodeUnits(mid))

\* the subject a reply derived from subject s carries
RePrefixed(s) ==
    IF s = "" THEN "Re:"
    ELSE IF Len(s) >= 3 /\ SubSeq(s, 1, 3) = "Re:" THEN s
    ELSE "Re: " \o s

\* C11 as stated: the subject handed to sendReply is derived from the
\* Subject of a most recent message of the thread: prefixed with "Re: "
\* when non-empty and not yet prefixed, unchanged when already prefixed,
\* and "Re:" when that message has no subject.
C11_SubjectFromLatest ==
    \A p \in Procs :
        pc[p] = "rp_send" =>
            \E k \in DOMAIN RepliedThread(p) :
                /\ MostRecent(RepliedThread(p)[k], RepliedThread(p))
                /\ sent[p][1].subject =
                       RePrefixed(GetHeader(RepliedThread(p)[k].payload.headers, "Subject"))

\* a fetch attempt of p's sync succeeded
FetchSucceeded(p) == \E i \in DOMAIN Fetches(p) : Fetches(p)[i].outcome = "ok"

\* p's sync returned success with errors equal to the number of failed
\* upserts and errorDetails listing the remote id of each of them
FailedUpsertsReported(p) ==
    /\ result[p].success
    /\ result[p].data[1].errors = Cardinality(injected[p])
    /\ Len(result[p].data[1].errorDetails) = Cardinality(injected[p])
    /\ {result[p].data[1].errorDetails[i].messageId : i \in DOMAIN result[p].data[1].errorDetails}
          = {payloads[p][i].gmailId : i \in injected[p]}

\* C12 as stated: whenever a fetch attempt of syncUserEmails succeeded the
\* call returns success with the failed upserts counted and listed; a
\* failure result is returned only when no fetch succeeded.
C12_SyncFailsOnlyOnFetch ==
    \A p \in Procs :
        (pc[p] = "done" /\ op[p] = "sync") =>
            /\ FetchSucceeded(p) => FailedUpsertsReported(p)
            /\ ~result[p].success => ~FetchSucceeded(p)

\* p's getThread (called directly or at the end of replyToThread) returned
\* after its remote fetch succeeded
ThreadFetchedAndReturned(p) ==
    /\ pc[p] = "done" /\ op[p] = "getThread"
    /\ log[p] # <<>>
    /\ log[p][Len(log[p])].call = "getThreadMessages"
    /\ log[p][Len(log[p])].outcome = "ok"

\* the result carries the requested thread as the store holds it now, with
\* every message of it whose upsert succeeded
CarriesRefreshedThread(p) ==
    /\ Len(result[p].data) = 1
    /\ <<result[p].data[1].thread>> = FindThreadById(reqThread[p])
    /\ \A i \in DOMAIN payloads[p] \ injected[p] :
          payloads[p][i].threadId = reqThread[p] =>
             \E k \in DOMAIN result[p].data[1].thread.messages :
                result[p].data[1].thread.messages[k].gmailId = payloads[p][i].gmailId

\* the signalling of C13: failure with the thread and the failed upserts
\* when an upsert failed, success with the thread when none did
PartialSuccessSignalled(p) ==
    /\ CarriesRefreshedThread(p)
    /\ result[p].success = (injected[p] = {})
    /\ Len(result[p].data[1].upsertErrors) = Cardinality(injected[p])
    /\ {result[p].data[1].upsertErrors[i].gmailId :
            i \in DOMAIN result[p].data[1].upsertErrors}
          = {payloads[p][i].gmailId : i \in injected[p]}

\* C13 as stated: when the remote fetch of getThread succeeded (after the
\* send, for replyToThread), the result is a failure carrying the refreshed
\* thread and the per-message upsert errors if an upsert failed, and a
\* success carrying the refreshed thread if none failed.
C13_PartialSuccessAlways ==
    \A p \in Procs : ThreadFetchedAndReturned(p) => PartialSuccessSignalled(p)

\* p runs getThread on a stored thread that has no remote thread id
OnLocalOnlyThread(p) ==
    /\ op[p] = "getThread"
    /\ pc[p] # "idle"
    /\ \E i \in DOMAIN threads : threads[i].id = reqThread[p] /\ threads[i].gmailId = ""

\* the state part of C14: no remote call is made, no credentials are asked
\* for, and the result is the stored thread
LocalOnlyState ==
    \A p \in Procs :
        OnLocalOnlyThread(p) =>
            /\ log[p] = <<>>
            /\ pc[p] \in {"gt_find", "done"}
            /\ pc[p] = "done" =>
                  /\ result[p].success
                  /\ <<result[p].data[1].thread>> = FindThreadById(reqThread[p])
                  /\ result[p].data[1].thread.gmailId = ""

\* the step part of C14: nothing stored changes
LocalOnlyStep ==
    \A p \in Procs :
        OnLocalOnlyThread(p) => UNCHANGED <<emails, threads, nextId, tokens>>

\* C14: getThread on a stored thread without remote thread id returns that
\* thread with success = true whatever tokens are stored, makes no remote
\* call, and leaves threads, messages and stored tokens unchanged.
C14_LocalOnlyThread == []LocalOnlyState /\ [][LocalOnlyStep]_vars

\* C14 witness: with no token stored at all, getThread on the local-only
\* thread returned it
C14_Witness ==
    /\ OnLocalOnlyThread("p1")
    /\ pc["p1"] = "done"
    /\ tokens[caller["p1"]] = NoTokens
    /\ result["p1"].success
    /\ result["p1"].data[1].thread.subject = "Local notes"

\* the sendReply calls of p's current request
Sends(p) == SelectSeq(log[p], LAMBDA c : c.call = "sendReply")

\* p's request began as replyToThread: the log of a request starts afresh,
\* and a reply's first remote call is its validateTokens
ReplyValidated(p) ==
    /\ log[p] # <<>>
    /\ log[p][1].call = "validateTokens"

\* C15: sendReply is invoked at most once and only after the validateTokens
\* call of that same replyToThread returned valid, with the refreshed
\* credentials when validation returned any and the validated ones
\* otherwise; when validation returns invalid the call ends in the failure
\* "Gmail authentication required" and nothing is sent.
C15_ValidateBeforeSend ==
    \A p \in Procs :
        /\ Sends(p) # <<>> =>
              /\ Len(Sends(p)) = 1
              /\ ReplyValidated(p)
              /\ log[p][1].outcome = "valid"
              /\ Sends(p)[1].tokens =
                    IF log[p][1].refreshed # <<>> THEN log[p][1].refreshed[1]
                    ELSE log[p][1].tokens
        /\ (op[p] = "reply" /\ ReplyValidated(p) /\ log[p][1].outcome = "invalid") =>
              /\ Len(log[p]) = 1
              /\ pc[p] = "done"
              /\ result[p] = ErrRes("Gmail authentication required")
              /\ sent[p] = <<>>

\* C15 witness: validation rotated the access token and the reply was then
\* sent with the rotated credentials
C15_Witness ==
    /\ ReplyValidated("p1")
    /\ log["p1"][1].refreshed # <<>>
    /\ Len(Sends("p1")) = 1
    /\ Sends("p1")[1].outcome = "ok"
    /\ Sends("p1")[1].tokens.accessToken = FreshAccess

\* the step is the failure of a collaborator of p's operation: a storage
\* call outside the batch threw or found no user, or the remote call just
\* made failed
CollaboratorFailed(p) ==
    \/ faultsLeft' < faultsLeft /\ injected'[p] = injected[p] /\ pc'[p] # pc[p]
    \/ /\ Len(log'[p]) = Len(log[p]) + 1
       /\ log'[p][Len(log'[p])].outcome \in {"other", "throws"}
    \/ /\ Len(log'[p]) = Len(log[p]) + 1
       /\ Len(Fetches(p)) = 1
       /\ log'[p][Len(log'[p])] = Call("getMessages", tok[p], "auth")

\* p's operation returned a failure result with an error message
FailureReturned(p) ==
    /\ pc[p] = "done"
    /\ ~result[p].success
    /\ result[p].error \notin {"", "pending"}

\* the state part of C16: an operation is idle, under way or has returned,
\* and what it returned is a success or a failure with an error message
NothingThrownState ==
    \A p \in Procs :
        /\ pc[p] # "threw"
        /\ pc[p] = "done" => (result[p].success \/ FailureReturned(p))

\* the step part of C16: the failure of a collaborator ends the operation
\* with a failure result
NothingThrownStep ==
    \A p \in Procs : CollaboratorFailed(p) => FailureReturned(p)'

\* C16: in syncUserEmails, getThread and replyToThread no failure of a
\* collaborator (user lookup, token read or store, remote fetch after the
\* retry, validation, remote send, thread lookup or creation) reaches the
\* caller as an exception: the operation returns a result with success =
\* false and a non-empty error message.
C16_NothingThrown == []NothingThrownState /\ [][NothingThrownStep]_vars

\* C16 witness: a reply was sent, and the thread lookup of the getThread
\* that follows threw; the operation returned the failure
C16_Witness ==
    /\ sent["p1"] # <<>>
    /\ Sends("p1") # <<>>
    /\ Sends("p1")[1].outcome = "ok"
    /\ log["p1"][Len(log["p1"])].call = "sendReply"
    /\ faultsLeft < MaxFaults
    /\ FailureReturned("p1")
    /\ result["p1"].error = StorageErr

\* the validateTokens calls of p's current request
Validations(p) == SelectSeq(log[p], LAMBDA c : c.call = "validateTokens")

\* the provider turned the credentials of validateTokens call c down: a
\* call made with them failed with code 401 or 403, or the refresh token
\* was exchanged for no access token
ProviderRejected(c) ==
    \/ c.failed # "" /\ c.code \in {401, 403}
    \/ c.failed = "" /\ c.refreshed = <<>> /\ c.tokens.accessToken = ""

\* C17: a validateTokens call whose probe (getProfile) fails with code 401
\* or 403 returns {valid: false}; one whose probe fails with any other
\* error raises the external-service error and gives no verdict; and an
\* operation ends with "Gmail authentication required" only after a
\* validateTokens call in which the provider turned the credentials down.
C17_ValidateClassification ==
    \A p \in Procs :
        /\ \A i \in DOMAIN Validations(p) :
              LET c == Validations(p)[i]
              IN c.failed = "getProfile" =>
                    /\ c.code \in {401, 403} => c.outcome = "invalid"
                    /\ c.code \notin {401, 403} => c.outcome = "throws"
        /\ (pc[p] = "done" /\ result[p].error = "Gmail authentication required") =>
              /\ Validations(p) # <<>>
              /\ log[p][Len(log[p])].call = "validateTokens"
              /\ log[p][Len(log[p])].outcome = "invalid"
              /\ ProviderRejected(log[p][Len(log[p])])
        /\ (pc[p] = "done" /\ log[p] # <<>>
            /\ log[p][Len(log[p])].call = "validateTokens"
            /\ log[p][Len(log[p])].outcome = "throws") =>
              result[p] = ErrRes("Gmail error: Token validation failed")

\* C17 witness: the probe of a getThread failed with code 500 and the
\* operation ended with the external-service error
C17_Witness ==
    /\ op["p1"] = "getThread"
    /\ pc["p1"] = "done"
    /\ Len(log["p1"]) = 1
    /\ log["p1"][1].call = "validateTokens"
    /\ log["p1"][1].failed = "getProfile"
    /\ log["p1"][1].code = 500
    /\ result["p1"] = ErrRes("Gmail error: Token validation failed")

\* the last remote call of p so far was a validateTokens that returned
\* valid with a refreshed access token
JustRotated(p) ==
    /\ log[p] # <<>>
    /\ log[p][Len(log[p])].call = "validateTokens"
    /\ log[p][Len(log[p])].outcome = "valid"
    /\ log[p][Len(log[p])].refreshed # <<>>

\* the state part of C18: the remote call that follows a validation with
\* refreshed credentials uses them, and nothing follows an invalid verdict
RotatedTokensState ==
    \A p \in Procs :
        \A i \in DOMAIN log[p] :
            log[p][i].call = "validateTokens" =>
               /\ (log[p][i].refreshed # <<>> /\ i < Len(log[p])) =>
                     log[p][i + 1].tokens = log[p][i].refreshed[1]
               /\ log[p][i].outcome = "invalid" =>
                     i = Len(log[p]) /\ pc[p] \in {"done", "idle"}

\* the step part of C18: when the next remote call is made after a
\* validation with refreshed credentials, they are already stored for the
\* user; the step in which validation returns invalid stores nothing and
\* ends the operation in a failure
RotatedTokensStep ==
    \A p \in Procs :
        /\ (JustRotated(p) /\ Len(log'[p]) = Len(log[p]) + 1) =>
              /\ tokens[caller[p]].accessToken =
                    log[p][Len(log[p])].refreshed[1].accessToken
              /\ log'[p][Len(log'[p])].tokens.accessToken = tokens[caller[p]].accessToken
        /\ (JustRotated(p) /\ pc'[p] = "done" /\ pc[p] # "done" /\ log'[p] = log[p]) =>
              \/ tokens[caller[p]].accessToken =
                    log[p][Len(log[p])].refreshed[1].accessToken
              \/ ~result'[p].success
        /\ (Len(log'[p]) = Len(log[p]) + 1
            /\ log'[p][Len(log'[p])].call = "validateTokens"
            /\ log'[p][Len(log'[p])].outcome = "invalid") =>
              /\ UNCHANGED tokens
              /\ pc'[p] = "done"
              /\ ~result'[p].success

\* C18: in getThread, in the retry path of syncUserEmails and in
\* replyToThread, when validateTokens returns valid with a refreshed access
\* token the refreshed pair is stored for the user before it is used for
\* any further remote call (and the operation cannot succeed without that
\* store); when validateTokens returns invalid nothing is stored and the
\* operation ends in a failure.
C18_RotatedTokensStored == []RotatedTokensState /\ [][RotatedTokensStep]_vars

\* C18 witness: a getThread that started with only a refresh token fetched
\* the remote thread with the new access token, which is stored by then
C18_Witness ==
    /\ op["p1"] = "getThread"
    /\ Len(log["p1"]) = 2
    /\ log["p1"][1].call = "validateTokens"
    /\ log["p1"][1].tokens = [accessToken |-> "", refreshToken |-> "r1"]
    /\ log["p1"][2] = Call("getThreadMessages",
                           [accessToken |-> FreshAccess, refreshToken |-> "r1"], "ok")
    /\ tokens["u1"] = [accessToken |-> FreshAccess, refreshToken |-> "r1"]

\* the email table as the driver saw it before the batch under way
BeforeBatch == IF snaps = <<>> THEN <<>> ELSE snaps[Len(snaps)]

\* C19: while a batch is under way and after it was interrupted before
\* its commit, the store holds none of its inserts or updates: the table
\* is as before the batch.  Once the batch has completed, every input
\* reported as success has its row in the table, holding every field
\* written for that input or for another input of the batch written to the
\* same row (an input without htmlBody writes no htmlBody).
C19_BatchAtomicity ==
    /\ pc["p1"] \in {"batch_run", "batch_aborted"} => emails = BeforeBatch
    /\ (pc["p1"] = "batch_ret" /\ op["p1"] = "batch") =>
          \A i \in DOMAIN payloads["p1"] :
             report["p1"].results[i].success =>
                \E r \in Range(emails) :
                   /\ r.id = report["p1"].results[i].email[1].id
                   /\ r.gmailId = payloads["p1"][i].gmailId
                   /\ \E j \in DOMAIN payloads["p1"] :
                         /\ report["p1"].results[j].success
                         /\ report["p1"].results[j].email[1].id = r.id
                         /\ UpdatedRow(r, payloads["p1"][j]) = r

\* C19 witness: the second batch of the driver was interrupted after it
\* had updated a row with other data; the table is as the first batch left
\* it and the row holds its old data
C19_Witness ==
    /\ pc["p1"] = "batch_aborted"
    /\ Len(snaps) = 1
    /\ emails = snaps[1]
    /\ \E i \in DOMAIN results["p1"] :
          /\ results["p1"][i].success /\ ~results["p1"][i].created
          /\ \E r \in Range(emails) :
                /\ r.id = results["p1"][i].email[1].id
                /\ DataOf(r) # DataOf(payloads["p1"][i])

\* only an access token, no refresh token
AccessOnly(t) == t.accessToken # "" /\ t.refreshToken = ""

\* p runs syncUserEmails, replyToThread, or getThread on a stored thread
\* that has a remote thread id
NeedsMailbox(p) ==
    \/ op[p] \in {"sync", "reply"}
    \/ /\ op[p] = "getThread"
       /\ \E i \in DOMAIN threads :
             threads[i].id = reqThread[p] /\ threads[i].gmailId # ""

\* the state part of C20: with no token stored the operation makes no
\* remote call and ends in a failure result
NotConnectedState ==
    \A p \in Procs :
        (NeedsMailbox(p) /\ tokens[caller[p]] = NoTokens) =>
            /\ log[p] = <<>>
            /\ sent[p] = <<>>
            /\ pc[p] \in {"gt_find", "gt_tokens", "done", "idle"}
            /\ pc[p] = "done" => FailureReturned(p)

\* the step part of C20: with no token stored nothing changes in threads
\* and messages; with only an access token stored the token gate of each
\* operation lets it through (the storage reads succeeding), and the step
\* after the gate is a remote call made with that token
NotConnectedStep ==
    \A p \in Procs :
        /\ (NeedsMailbox(p)' /\ tokens[caller[p]] = NoTokens) =>
              UNCHANGED <<emails, threads, nextId>>
        /\ (AccessOnly(tokens[caller[p]]) /\ faultsLeft' = faultsLeft) =>
              /\ (pc[p] = "idle" /\ op'[p] = "sync") =>
                    pc'[p] = "sync_fetch" /\ tok'[p] = tokens[caller[p]]
              /\ (pc[p] = "idle" /\ op'[p] = "reply") =>
                    pc'[p] = "rp_validate" /\ tok'[p] = tokens[caller[p]]
              /\ (pc[p] = "gt_tokens" /\ pc'[p] # pc[p]) =>
                    pc'[p] = "gt_validate" /\ tok'[p] = tokens[caller[p]]
              /\ (pc[p] \in {"sync_fetch", "rp_validate", "gt_validate"}
                  /\ pc'[p] # pc[p]) =>
                    /\ Len(log'[p]) = Len(log[p]) + 1
                    /\ log'[p][Len(log'[p])].tokens = tokens[caller[p]]
                    /\ log'[p][Len(log'[p])].call =
                          IF pc[p] = "sync_fetch" THEN "getMessages" ELSE "validateTokens"

\* C20: when the user has neither an access token nor a refresh token
\* stored, syncUserEmails, replyToThread and getThread on a thread with a
\* remote id each end in a failure result, make no remote call and change
\* neither threads nor messages; with an access token alone stored, each
\* of the three passes its token gate and makes its remote call with it.
C20_NotConnected == []NotConnectedState /\ [][NotConnectedStep]_vars

\* C20 witness: with no token stored, getThread on the stored thread of
\* remote thread t1 returned "Gmail tokens not found" without a remote call
C20_Witness ==
    /\ op["p1"] = "getThread"
    /\ reqThread["p1"] = 1
    /\ NeedsMailbox("p1")
    /\ tokens["u1"] = NoTokens
    /\ pc["p1"] = "done"
    /\ log["p1"] = <<>>
    /\ result["p1"] = ErrRes("Gmail tokens not found")

\* ------------------------------------------------------------- drafts
\* generateDraft and sendDraft calls the draft driver may make
MaxDraftOps == 4

\* tones a generateDraft request may ask for; "" stands for none
Tones == {"", "formal"}

\* the row prisma.draft.create stores; sentAt 0 stands for null
DraftRow(id, threadId, u, content, tone, now) ==
    [id |-> id, threadId |-> threadId, userId |-> u, content |-> content,
     tone |-> tone, status |-> "PENDING", sentAt |-> 0,
     createdAt |-> now, updatedAt |-> now]

\* mapToEmailDraft(record): the draft as the services return it, without
\* its user and its sent-at time
MapToEmailDraft(r) ==
    [id |-> r.id, threadId |-> r.threadId, content |-> r.content,
     tone |-> r.tone, status |-> r.status,
     createdAt |-> r.createdAt, updatedAt |-> r.updatedAt]

RECURSIVE UpdateDraftStatus(_, _, _, _, _)
\* prisma.draft.update({where: {id}, data: {status, sentAt if SENT}});
\* touched says whether the storage stamps updatedAt on an update, which
\* the schema decides
UpdateDraftStatus(rows, id, status, now, touched) ==
    IF rows = <<>> THEN <<>>
    ELSE LET r == Head(rows)
             w == IF r.id # id THEN r
                  ELSE [r EXCEPT !.status = status,
                                 !.sentAt = IF status = "SENT" THEN now ELSE @,
                                 !.updatedAt = IF touched THEN now ELSE @]
         IN <<w>> \o UpdateDraftStatus(Tail(rows), id, status, now, touched)

\* the message of the ExternalServiceError generateEmailDraft throws
GeneratorErr == "Vertex AI error: Failed to generate email draft: Error: socket hang up"

\* error.message of prisma.draft.update when no row has the id
DraftMissingErr == "Record to update not found."

\* generateDraft(firebaseUid, threadId, context) enters executeWithUser and
\* the user is found
GenerateDraft(p, threadId) ==
    /\ pc[p] = "idle"
    /\ opsLeft > 0
    /\ opsLeft' = opsLeft - 1
    /\ op' = [op EXCEPT ![p] = "generateDraft"]
    /\ reqThread' = [reqThread EXCEPT ![p] = threadId]
    /\ log' = [log EXCEPT ![p] = <<>>]
    /\ sent' = [sent EXCEPT ![p] = <<>>]
    /\ result' = [result EXCEPT ![p] = NoRes]
    /\ pc' = [pc EXCEPT ![p] = "gd_profile"]
    /\ UNCHANGED <<storeVars, batchVars, faultsLeft, driverVars, sideVars, tokens, clock,
                   remote, caller, tok, msgs, idx, threadCache>>

\* styleProfile = await getStyleProfile(firebaseUid)
GenerateDraftProfile(p, hasProfile) ==
    /\ pc[p] = "gd_profile"
    /\ IF hasProfile
       THEN pc' = [pc EXCEPT ![p] = "gd_thread"] /\ UNCHANGED result
       ELSE /\ result' = [result EXCEPT ![p] =
                   ErrRes("User style profile not found. Complete onboarding first.")]
            /\ pc' = [pc EXCEPT ![p] = "done"]
    /\ UNCHANGED <<storeVars, op, batchVars, faultsLeft, driverVars, sideVars, tokens, clock,
                   envVars, tok, msgs, idx, threadCache, log, reqThread, sent>>

\* thread = await findThreadById(threadId)
GenerateDraftThread(p) ==
    /\ pc[p] = "gd_thread"
    /\ IF FindThreadById(reqThread[p]) = <<>>
       THEN /\ result' = [result EXCEPT ![p] = ErrRes("Email thread not found")]
            /\ pc' = [pc EXCEPT ![p] = "done"]
       ELSE pc' = [pc EXCEPT ![p] = "gd_generate"] /\ UNCHANGED result
    /\ UNCHANGED <<storeVars, op, batchVars, faultsLeft, driverVars, sideVars, tokens, clock,
                   envVars, tok, msgs, idx, threadCache, log, reqThread, sent>>

\* draftContent = await generateEmailDraft(styleProfile, generationContext)
GenerateDraftContent(p, generated) ==
    /\ pc[p] = "gd_generate"
    /\ IF generated
       THEN pc' = [pc EXCEPT ![p] = "gd_create"] /\ UNCHANGED result
       ELSE Caught(p, ErrorOf(GeneratorErr))
    /\ UNCHANGED <<storeVars, op, batchVars, faultsLeft, driverVars, sideVars, tokens, clock,
                   envVars, tok, msgs, idx, threadCache, log, reqThread, sent>>

\* draft = await createDraft({threadId, userId, content, tone, status:
\* "PENDING"}); context.tone, an input of the call, is read here
GenerateDraftCreate(p, tone) ==
    /\ pc[p] = "gd_create"
    /\ clock' = clock + 1
    /\ LET row == DraftRow(nextId, reqThread[p], caller[p], "draft text", tone, clock)
       IN /\ drafts' = Append(drafts, row)
          /\ nextId' = nextId + 1
          /\ result' = [result EXCEPT ![p] = OkRes(MapToEmailDraft(row))]
    /\ pc' = [pc EXCEPT ![p] = "done"]
    /\ UNCHANGED <<emails, threads, op, batchVars, faultsLeft, driverVars,
                   credentials, bgVars, tokens, envVars, tok, msgs, idx,
                   threadCache, log, reqThread, sent>>

\* sendDraft(firebaseUid, draftId) enters executeWithUserAndTokens and the
\* user is found; reqThread holds the id the request names, here a draft's
SendDraft(p, draftId) ==
    /\ pc[p] = "idle"
    /\ opsLeft > 0
    /\ opsLeft' = opsLeft - 1
    /\ op' = [op EXCEPT ![p] = "sendDraft"]
    /\ reqThread' = [reqThread EXCEPT ![p] = draftId]
    /\ log' = [log EXCEPT ![p] = <<>>]
    /\ sent' = [sent EXCEPT ![p] = <<>>]
    /\ result' = [result EXCEPT ![p] = NoRes]
    /\ pc' = [pc EXCEPT ![p] = "sd_tokens"]
    /\ UNCHANGED <<storeVars, batchVars, faultsLeft, driverVars, sideVars, tokens, clock,
                   remote, caller, tok, msgs, idx, threadCache>>

\* tokens = await getValidTokens(firebaseUid, "access")
SendDraftTokens(p) ==
    /\ pc[p] = "sd_tokens"
    /\ LET t == GetValidTokens(caller[p], "access")
       IN IF t = <<>>
          THEN /\ result' = [result EXCEPT ![p] = ErrRes("Gmail tokens not found")]
               /\ pc' = [pc EXCEPT ![p] = "done"]
               /\ UNCHANGED tok
          ELSE /\ tok' = [tok EXCEPT ![p] = t[1]]
               /\ pc' = [pc EXCEPT ![p] = "sd_update"]
               /\ UNCHANGED result
    /\ UNCHANGED <<storeVars, op, batchVars, faultsLeft, driverVars, sideVars, tokens, clock,
                   envVars, msgs, idx, threadCache, log, reqThread, sent>>

\* await updateDraftStatus(draftId, "SENT"): the update of a row that is
\* not there rejects, and executeWithUser returns its message
SendDraftUpdate(p, touched) ==
    /\ pc[p] = "sd_update"
    /\ clock' = clock + 1
    /\ IF \A i \in DOMAIN drafts : drafts[i].id # reqThread[p]
       THEN /\ Caught(p, ErrorOf(DraftMissingErr))
            /\ UNCHANGED drafts
       ELSE /\ drafts' = UpdateDraftStatus(drafts, reqThread[p], "SENT", clock, touched)
            /\ result' = [result EXCEPT ![p] = OkRes("Draft sent successfully")]
            /\ pc' = [pc EXCEPT ![p] = "done"]
    /\ UNCHANGED <<storeVars, op, batchVars, faultsLeft, driverVars,
                   credentials, bgVars, tokens, envVars, tok, msgs, idx,
                   threadCache, log, reqThread, sent>>

\* a storage call of generateDraft or sendDraft rejects; executeWithUser
\* catches it
DraftFail(p) ==
    /\ pc[p] \in {"gd_profile", "gd_thread", "gd_create", "sd_tokens", "sd_update"}
    /\ faultsLeft > 0
    /\ faultsLeft' = faultsLeft - 1
    /\ (\E e \in StorageFaults : Caught(p, e))
    /\ UNCHANGED <<storeVars, op, batchVars, driverVars, sideVars, tokens, clock, envVars,
                   tok, msgs, idx, threadCache, log, reqThread, sent>>

\* the steps of a generateDraft or sendDraft request
DraftStep(p) ==
    \/ \E threadId \in 1..3 : GenerateDraft(p, threadId)
    \/ \E hasProfile \in BOOLEAN : GenerateDraftProfile(p, hasProfile)
    \/ GenerateDraftThread(p)
    \/ \E generated \in BOOLEAN : GenerateDraftContent(p, generated)
    \/ \E tone \in Tones : GenerateDraftCreate(p, tone)
    \/ \E draftId \in 4..nextId : SendDraft(p, draftId)
    \/ SendDraftTokens(p)
    \/ \E touched \in BOOLEAN : SendDraftUpdate(p, touched)
    \/ DraftFail(p)
    \/ \E o \in {"generateDraft", "sendDraft"} : StartFail(p, o)
    \/ Finish(p)

\* ------------------------------------------- the shared mailbox client
\* There is one GmailIntegration and it has one OAuth2 client.  Each method
\* sets the caller's tokens on that client and then awaits its requests; a
\* request carries the credentials the client holds when it is issued.
MaxClientOps == 3

\* the credential pair each user stored at sign-in
OwnTokens(u) ==
    IF u = "u1" THEN GoodTokens ELSE [accessToken |-> "b1", refreshToken |-> "r2"]

\* the ids messages.list answers with
ListedIds == <<"g1", "g2">>

\* a request issued through the shared client
ClientRequest(name) == Call(name, credentials, "ok")

\* getMessages up to its first await: setCredentials(tokens), then
\* gmail.users.messages.list is called
ClientGetMessages(p) ==
    /\ pc[p] = "idle"
    /\ opsLeft > 0
    /\ opsLeft' = opsLeft - 1
    /\ op' = [op EXCEPT ![p] = "sync"]
    /\ tok' = [tok EXCEPT ![p] = tokens[caller[p]]]
    /\ credentials' = tokens[caller[p]]
    /\ log' = [log EXCEPT ![p] = <<Call("messages.list", tokens[caller[p]], "ok")>>]
    /\ idx' = [idx EXCEPT ![p] = 1]
    /\ pc' = [pc EXCEPT ![p] = "gm_detail"]
    /\ UNCHANGED <<storeVars, batchVars, faultsLeft, driverVars, drafts, bgVars, tokens,
                   clock, remote, caller, msgs, threadCache, result, reqThread,
                   sent>>

\* the awaited request of getMessages (messages.list, then one
\* messages.get for each listed id) is answered: the next messages.get is
\* called, or after the last one the messages are returned (here by their
\* ids); or it rejects: the catch throws an ExternalServiceError and no
\* further request is made
ClientGetDetail(p, ok) ==
    /\ pc[p] = "gm_detail"
    /\ IF ~ok
       THEN /\ \E e \in FetchErrors : Caught(p, ErrorOf(e.message))
            /\ UNCHANGED <<log, idx>>
       ELSE IF idx[p] <= Len(ListedIds)
       THEN /\ log' = [log EXCEPT ![p] = Append(@, ClientRequest("messages.get"))]
            /\ idx' = [idx EXCEPT ![p] = @ + 1]
            /\ UNCHANGED <<pc, result>>
       ELSE /\ result' = [result EXCEPT ![p] = OkRes(ListedIds)]
            /\ pc' = [pc EXCEPT ![p] = "done"]
            /\ UNCHANGED <<log, idx>>
    /\ UNCHANGED <<storeVars, op, batchVars, faultsLeft, driverVars, sideVars,
                   tokens, clock, envVars, tok, msgs, threadCache,
                   reqThread, sent>>

\* the methods that set the credentials and await one request
ClientMethods == {"getThreadMessages", "sendEmail", "sendReply"}

\* the request each of them issues
RequestOf(method) ==
    IF method = "getThreadMessages" THEN "threads.get" ELSE "messages.send"

\* getThreadMessages, sendEmail or sendReply up to its await:
\* setCredentials(tokens), then the request is called
ClientCall(p, method) ==
    /\ pc[p] = "idle"
    /\ opsLeft > 0
    /\ opsLeft' = opsLeft - 1
    /\ tokens[caller[p]] # NoTokens
    /\ op' = [op EXCEPT ![p] = method]
    /\ tok' = [tok EXCEPT ![p] = tokens[caller[p]]]
    /\ credentials' = tokens[caller[p]]
    /\ log' = [log EXCEPT ![p] = <<Call(RequestOf(method), tokens[caller[p]], "ok")>>]
    /\ pc' = [pc EXCEPT ![p] = "cl_await"]
    /\ UNCHANGED <<storeVars, batchVars, faultsLeft, driverVars, drafts, bgVars, tokens,
                   clock, remote, caller, msgs, idx, threadCache, result,
                   reqThread, sent>>

\* the request of getThreadMessages, sendEmail or sendReply is answered, or
\* rejects and the method throws an ExternalServiceError
ClientAnswer(p, ok) ==
    /\ pc[p] = "cl_await"
    /\ IF ok
       THEN /\ result' = [result EXCEPT ![p] = OkRes(op[p])]
            /\ pc' = [pc EXCEPT ![p] = "done"]
       ELSE Caught(p, ErrorOf("Gmail error: request failed"))
    /\ UNCHANGED <<storeVars, op, batchVars, faultsLeft, driverVars, sideVars,
                   tokens, clock, envVars, tok, msgs, idx, threadCache, log,
                   reqThread, sent>>

\* validateTokens up to its first await: setCredentials(tokens); with a
\* refresh token only getAccessToken is called, otherwise
\* gmail.users.getProfile
ClientValidate(p) ==
    /\ pc[p] = "idle"
    /\ opsLeft > 0
    /\ opsLeft' = opsLeft - 1
    /\ tokens[caller[p]] # NoTokens
    /\ op' = [op EXCEPT ![p] = "validate"]
    /\ tok' = [tok EXCEPT ![p] = tokens[caller[p]]]
    /\ credentials' = tokens[caller[p]]
    /\ IF tokens[caller[p]].accessToken = ""
       THEN /\ log' = [log EXCEPT ![p] = <<Call("getAccessToken", tokens[caller[p]], "ok")>>]
            /\ pc' = [pc EXCEPT ![p] = "vt_access"]
       ELSE /\ log' = [log EXCEPT ![p] = <<Call("getProfile", tokens[caller[p]], "ok")>>]
            /\ pc' = [pc EXCEPT ![p] = "vt_read"]
    /\ UNCHANGED <<storeVars, batchVars, faultsLeft, driverVars, drafts, bgVars, tokens,
                   clock, remote, caller, msgs, idx, threadCache, result,
                   reqThread, sent>>

\* validateTokens after getAccessToken.  Answered with a token:
\* setCredentials is called with it, refreshedTokens is set (kept in tok)
\* and gmail.users.getProfile is called.  Answered without a token, or
\* rejected with code 401 or 403: the tokens are invalid and
\* ensureValidTokens returns null.  Rejected otherwise: the catch throws an
\* ExternalServiceError, which ensureValidTokens passes on
ClientAccessToken(p, access) ==
    /\ pc[p] = "vt_access"
    /\ IF access.ok /\ access.token # ""
       THEN /\ tok' = [tok EXCEPT ![p] = [accessToken |-> access.token,
                                          refreshToken |-> tok[p].refreshToken]]
            /\ credentials' = [accessToken |-> access.token,
                               refreshToken |-> tok[p].refreshToken]
            /\ log' = [log EXCEPT ![p] = Append(@, Call("getProfile", credentials', "ok"))]
            /\ pc' = [pc EXCEPT ![p] = "vt_read_refreshed"]
            /\ UNCHANGED result
       ELSE IF access.ok \/ access.code \in {401, 403}
       THEN /\ result' = [result EXCEPT ![p] = ErrRes("Gmail authentication required")]
            /\ pc' = [pc EXCEPT ![p] = "done"]
            /\ UNCHANGED <<tok, credentials, log>>
       ELSE /\ Caught(p, ErrorOf("Gmail error: Token validation failed"))
            /\ UNCHANGED <<tok, credentials, log>>
    /\ UNCHANGED <<storeVars, op, batchVars, faultsLeft, driverVars, drafts, bgVars,
                   tokens, clock, envVars, msgs, idx, threadCache, reqThread, sent>>

\* getRefreshedTokens(): the credentials of the client, null without an
\* access token
GetRefreshedTokens == IF credentials.accessToken = "" THEN <<>> ELSE <<credentials>>

\* validateTokens after the probe: latest is read back from the client and
\* returned as refreshedTokens when its access token differs from the one
\* passed in
RefreshedTokens(t) ==
    LET latest == GetRefreshedTokens
    IN IF latest # <<>> /\ latest[1].accessToken # t.accessToken
       THEN <<[accessToken |-> latest[1].accessToken,
               refreshToken |-> Or(latest[1].refreshToken, t.refreshToken)]>>
       ELSE <<>>

\* outcomes of the probe: answered, rejected with code 401 or 403, rejected
\* otherwise
ProbeOutcomes == {"ok", "auth", "other"}

\* validateTokens after the probe, and ensureValidTokens up to its await:
\* a rejected probe makes the tokens invalid (null is returned) or throws;
\* after an answered probe the read-back decides between returning the
\* tokens passed in and storing refreshed ones.  At vt_read_refreshed the
\* tokens passed in had no access token and tok holds refreshedTokens
ClientValidateRead(p, probe) ==
    /\ pc[p] \in {"vt_read", "vt_read_refreshed"}
    /\ IF probe = "auth"
       THEN /\ result' = [result EXCEPT ![p] = ErrRes("Gmail authentication required")]
            /\ pc' = [pc EXCEPT ![p] = "done"]
            /\ UNCHANGED tok
       ELSE IF probe = "other"
       THEN /\ Caught(p, ErrorOf("Gmail error: Token validation failed"))
            /\ UNCHANGED tok
       ELSE LET passed == IF pc[p] = "vt_read" THEN tok[p]
                          ELSE [tok[p] EXCEPT !.accessToken = ""]
                r == RefreshedTokens(passed)
            IN IF r # <<>>
               THEN /\ tok' = [tok EXCEPT ![p] = r[1]]
                    /\ pc' = [pc EXCEPT ![p] = "vt_store"]
                    /\ UNCHANGED result
               ELSE IF pc[p] = "vt_read_refreshed"
               THEN /\ pc' = [pc EXCEPT ![p] = "vt_store"]
                    /\ UNCHANGED <<tok, result>>
               ELSE /\ result' = [result EXCEPT ![p] = OkRes(tok[p])]
                    /\ pc' = [pc EXCEPT ![p] = "done"]
                    /\ UNCHANGED tok
    /\ UNCHANGED <<storeVars, op, batchVars, faultsLeft, driverVars, sideVars, tokens,
                   clock, envVars, msgs, idx, threadCache, log, reqThread, sent>>

\* await storeTokens(firebaseUid, validation.refreshedTokens), then the
\* refreshed tokens are returned; a rejected store is thrown to the caller
\* of ensureValidTokens
ClientStore(p, stored) ==
    /\ pc[p] = "vt_store"
    /\ IF stored
       THEN /\ tokens' = [tokens EXCEPT ![caller[p]] = StoreTokens(@, tok[p])]
            /\ result' = [result EXCEPT ![p] = OkRes(tok[p])]
            /\ pc' = [pc EXCEPT ![p] = "done"]
            /\ UNCHANGED faultsLeft
       ELSE /\ faultsLeft > 0
            /\ faultsLeft' = faultsLeft - 1
            /\ (\E e \in StorageFaults : Caught(p, e))
            /\ UNCHANGED tokens
    /\ UNCHANGED <<storeVars, op, batchVars, driverVars, sideVars,
                   clock, envVars, tok, msgs, idx, threadCache, log, reqThread, sent>>

\* the operation returned
ClientReturn(p) ==
    /\ pc[p] = "done"
    /\ opsLeft > 0
    /\ pc' = [pc EXCEPT ![p] = "idle"]
    /\ op' = [op EXCEPT ![p] = "none"]
    /\ tok' = [tok EXCEPT ![p] = NoTokens]
    /\ idx' = [idx EXCEPT ![p] = 1]
    /\ log' = [log EXCEPT ![p] = <<>>]
    /\ result' = [result EXCEPT ![p] = NoRes]
    /\ UNCHANGED <<storeVars, batchVars, faultsLeft, driverVars, sideVars,
                   tokens, clock, envVars, msgs, threadCache, reqThread, sent>>

\* two users, each signed in with tokens of their own; the access token of
\* the first may be gone
InitClient ==
    /\ InitRequests
    /\ InitStore
    /\ batchIn = <<>>
    /\ \E t \in {OwnTokens("u1"), [OwnTokens("u1") EXCEPT !.accessToken = ""]} :
          tokens = [u \in Users |-> IF u = "u1" THEN t ELSE OwnTokens(u)]
    /\ remote = <<M1, M2>>
    /\ caller = [p \in Procs |-> IF p = "p1" THEN "u1" ELSE "u2"]
    /\ opsLeft = MaxClientOps

NextClient ==
    \E p \in Procs :
       \/ ClientGetMessages(p)
       \/ \E ok \in BOOLEAN : ClientGetDetail(p, ok)
       \/ \E method \in ClientMethods : ClientCall(p, method)
       \/ \E ok \in BOOLEAN : ClientAnswer(p, ok)
       \/ ClientValidate(p)
       \/ \E access \in AccessResults(tok[p]) : ClientAccessToken(p, access)
       \/ \E probe \in ProbeOutcomes : ClientValidateRead(p, probe)
       \/ \E stored \in BOOLEAN : ClientStore(p, stored)
       \/ ClientReturn(p)

SpecClient == InitClient /\ [][NextClient]_vars

\* ------------------------------------------------------ account purge
\* rows of a table without those of user u: deleteMany({where: {userId}})
WithoutUser(rows, u) == SelectSeq(rows, LAMBDA r : r.userId # u)

\* A variant of the purge whose deleteMany calls have no where clause.
PurgeEverything(p) ==
    /\ op[p] = "purge"
    /\ pc[p] \in {"purge_find", "purge_drafts", "purge_emails", "purge_threads"}
    /\ drafts' = <<>> /\ emails' = <<>> /\ threads' = <<>>
    /\ pc' = [pc EXCEPT ![p] = "done"]
    /\ result' = [result EXCEPT ![p] = OkRes("logged out")]
    /\ UNCHANGED <<nextId, op, batchVars, faultsLeft, driverVars, credentials, bgVars,
                   tokens, clock, envVars, tok, msgs, idx, threadCache, log,
                   reqThread, sent>>

\* purgeUserData(firebaseUid): the user is looked up, then the drafts, the
\* emails and the threads of the user are deleted, each by an awaited
\* deleteMany of its own
PurgeUserData(p) ==
    /\ op[p] = "purge"
    /\ \/ /\ pc[p] = "purge_find"
          /\ pc' = [pc EXCEPT ![p] = "purge_drafts"]
          /\ UNCHANGED <<drafts, emails, threads, result>>
       \/ /\ pc[p] = "purge_drafts"
          /\ drafts' = WithoutUser(drafts, caller[p])
          /\ pc' = [pc EXCEPT ![p] = "purge_emails"]
          /\ UNCHANGED <<emails, threads, result>>
       \/ /\ pc[p] = "purge_emails"
          /\ emails' = WithoutUser(emails, caller[p])
          /\ pc' = [pc EXCEPT ![p] = "purge_threads"]
          /\ UNCHANGED <<drafts, threads, result>>
       \/ /\ pc[p] = "purge_threads"
          /\ threads' = WithoutUser(threads, caller[p])
          /\ pc' = [pc EXCEPT ![p] = "done"]
          /\ result' = [result EXCEPT ![p] = OkRes("logged out")]
          /\ UNCHANGED <<drafts, emails>>
    /\ UNCHANGED <<nextId, op, batchVars, faultsLeft, driverVars, credentials, bgVars,
                   tokens, clock, envVars, tok, msgs, idx, threadCache, log,
                   reqThread, sent>>

\* logout(firebaseUid) is entered and awaits setOffline
Logout(p) ==
    /\ pc[p] = "idle"
    /\ opsLeft > 0
    /\ opsLeft' = opsLeft - 1
    /\ op' = [op EXCEPT ![p] = "purge"]
    /\ pc' = [pc EXCEPT ![p] = "lo_offline"]
    /\ log' = [log EXCEPT ![p] = <<>>]
    /\ sent' = [sent EXCEPT ![p] = <<>>]
    /\ result' = [result EXCEPT ![p] = NoRes]
    /\ UNCHANGED <<storeVars, batchVars, faultsLeft, driverVars, sideVars, tokens, clock,
                   remote, caller, tok, msgs, idx, threadCache, reqThread>>

\* setOffline(firebaseUid) has set isOnline to false, which only the
\* snapshot of the background service reads
SetOffline(p) ==
    /\ pc[p] = "lo_offline"
    /\ pc' = [pc EXCEPT ![p] = "lo_clear"]
    /\ UNCHANGED <<storeVars, op, batchVars, faultsLeft, driverVars, sideVars, tokens, clock,
                   envVars, orchVars>>

\* clearTokens(firebaseUid): both tokens are set to null
ClearTokens(p) ==
    /\ pc[p] = "lo_clear"
    /\ tokens' = [tokens EXCEPT ![caller[p]] = NoTokens]
    /\ pc' = [pc EXCEPT ![p] = "purge_find"]
    /\ UNCHANGED <<storeVars, op, batchVars, faultsLeft, driverVars, sideVars, clock,
                   envVars, orchVars>>

\* one of the storage calls of logout rejects: the catch of logout returns
\* the failure and the calls after it are not made
LogoutFail(p) ==
    /\ op[p] = "purge"
    /\ pc[p] \in {"lo_offline", "lo_clear", "purge_find", "purge_drafts",
                  "purge_emails", "purge_threads"}
    /\ faultsLeft > 0
    /\ faultsLeft' = faultsLeft - 1
    /\ (\E e \in StorageFaults : Caught(p, e))
    /\ UNCHANGED <<storeVars, op, batchVars, driverVars, sideVars, tokens, clock, envVars,
                   tok, msgs, idx, threadCache, log, reqThread, sent>>

\* the steps of a logout request
LogoutStep(p) ==
    \/ Logout(p)
    \/ SetOffline(p)
    \/ ClearTokens(p)
    \/ PurgeUserData(p)
    \/ LogoutFail(p)

\* ---------------------------------------------- sign-in and auth status
\* what oauth2Client.getToken(code) answers with: both tokens, one of them,
\* or none ("" stands for undefined)
CodeTokens == {[accessToken |-> a, refreshToken |-> r] : a \in {"", "a9"}, r \in {"", "r9"}}

\* handleGmailCallback(code, firebaseUid) up to its first await:
\* getTokensFromCode(code) calls oauth2Client.getToken, which leaves the
\* credentials of the client alone
HandleGmailCallback(p) ==
    /\ pc[p] = "idle"
    /\ opsLeft > 0
    /\ opsLeft' = opsLeft - 1
    /\ op' = [op EXCEPT ![p] = "handleGmailCallback"]
    /\ pc' = [pc EXCEPT ![p] = "cb_code"]
    /\ log' = [log EXCEPT ![p] = <<Call("getToken", NoTokens, "ok")>>]
    /\ sent' = [sent EXCEPT ![p] = <<>>]
    /\ result' = [result EXCEPT ![p] = NoRes]
    /\ UNCHANGED <<storeVars, batchVars, faultsLeft, driverVars, sideVars, tokens, clock,
                   remote, caller, tok, msgs, idx, threadCache, reqThread>>

\* getToken rejected: getTokensFromCode throws an ExternalServiceError; or
\* it answered with t: without an access token the callback fails, with one
\* storeTokens is called
CallbackCode(p, ok, t) ==
    /\ pc[p] = "cb_code"
    /\ IF ~ok
       THEN /\ Caught(p, ErrorOf("Gmail OAuth error: Failed to exchange code for tokens"))
            /\ UNCHANGED tok
       ELSE IF t.accessToken = ""
       THEN /\ result' = [result EXCEPT ![p] = ErrRes("Failed to obtain access token")]
            /\ pc' = [pc EXCEPT ![p] = "done"]
            /\ UNCHANGED tok
       ELSE /\ tok' = [tok EXCEPT ![p] = t]
            /\ pc' = [pc EXCEPT ![p] = "cb_store"]
            /\ UNCHANGED result
    /\ UNCHANGED <<storeVars, op, batchVars, faultsLeft, driverVars, sideVars, tokens,
                   clock, envVars, msgs, idx, threadCache, log, reqThread, sent>>

\* await this.userRepository.storeTokens(firebaseUid, tokens)
CallbackStore(p) ==
    /\ pc[p] = "cb_store"
    /\ tokens' = [tokens EXCEPT ![caller[p]] = StoreTokens(@, tok[p])]
    /\ pc' = [pc EXCEPT ![p] = "cb_status"]
    /\ UNCHANGED <<storeVars, op, batchVars, faultsLeft, driverVars, sideVars, clock,
                   envVars, orchVars>>

\* await updateOnboardingStatus(firebaseUid, "GMAIL_CONNECTED"), which
\* writes a field nothing here reads, then createSuccessResult(undefined)
CallbackStatus(p) ==
    /\ pc[p] = "cb_status"
    /\ result' = [result EXCEPT ![p] = OkRes("")]
    /\ pc' = [pc EXCEPT ![p] = "done"]
    /\ UNCHANGED <<storeVars, op, batchVars, faultsLeft, driverVars, sideVars, tokens,
                   clock, envVars, tok, msgs, idx, threadCache, log, reqThread, sent>>

\* the two operations that report whether the mailbox is connected
AuthOps == {"registerOrLoginUser", "getAuthStatus"}

\* what they return of the validation: hasValidGmailAuth, or needsGmailAuth
AuthData(o, valid) ==
    IF o = "getAuthStatus" THEN [hasValidGmailAuth |-> valid, needsGmailAuth |-> FALSE]
    ELSE [hasValidGmailAuth |-> FALSE, needsGmailAuth |-> ~valid]

\* registerOrLoginUser(firebaseUser) or getAuthStatus(firebaseUid) up to
\* the reads of the user and of the stored tokens
AuthStatus(p, o) ==
    /\ pc[p] = "idle"
    /\ opsLeft > 0
    /\ opsLeft' = opsLeft - 1
    /\ op' = [op EXCEPT ![p] = o]
    /\ pc' = [pc EXCEPT ![p] = "as_tokens"]
    /\ log' = [log EXCEPT ![p] = <<>>]
    /\ sent' = [sent EXCEPT ![p] = <<>>]
    /\ result' = [result EXCEPT ![p] = NoRes]
    /\ UNCHANGED <<storeVars, batchVars, faultsLeft, driverVars, sideVars, tokens, clock,
                   remote, caller, tok, msgs, idx, threadCache, reqThread>>

\* tokens = await getTokens(firebaseUid): without an access token nothing
\* is validated and the mailbox counts as not connected
AuthStatusTokens(p) ==
    /\ pc[p] = "as_tokens"
    /\ IF tokens[caller[p]].accessToken = ""
       THEN /\ result' = [result EXCEPT ![p] = OkRes(AuthData(op[p], FALSE))]
            /\ pc' = [pc EXCEPT ![p] = "done"]
            /\ UNCHANGED tok
       ELSE /\ tok' = [tok EXCEPT ![p] = tokens[caller[p]]]
            /\ pc' = [pc EXCEPT ![p] = "as_validate"]
            /\ UNCHANGED result
    /\ UNCHANGED <<storeVars, op, batchVars, faultsLeft, driverVars, sideVars, tokens,
                   clock, envVars, msgs, idx, threadCache, log, reqThread, sent>>

\* validation = await validateTokens(safeTokens): a thrown error goes to
\* the catch; refreshed tokens of a valid answer are stored; otherwise the
\* verdict is returned
AuthStatusValidate(p) ==
    /\ pc[p] = "as_validate"
    /\ \E v \in ValidateOutcomes(tok[p]) :
          /\ log' = [log EXCEPT ![p] = Append(@, ValidateCall(tok[p], v))]
          /\ IF v.kind = "throws"
             THEN /\ Caught(p, ErrorOf("Gmail error: Token validation failed"))
                  /\ UNCHANGED tok
             ELSE IF v.kind = "valid" /\ v.refreshed # <<>> /\ v.refreshed[1].accessToken # ""
             THEN /\ tok' = [tok EXCEPT ![p] = v.refreshed[1]]
                  /\ pc' = [pc EXCEPT ![p] = "as_store"]
                  /\ UNCHANGED result
             ELSE /\ result' = [result EXCEPT ![p] = OkRes(AuthData(op[p], v.kind = "valid"))]
                  /\ pc' = [pc EXCEPT ![p] = "done"]
                  /\ UNCHANGED tok
    /\ UNCHANGED <<storeVars, op, batchVars, faultsLeft, driverVars, sideVars, tokens, clock,
                   envVars, msgs, idx, threadCache, reqThread, sent>>

\* await storeTokens(firebaseUid, validation.refreshedTokens), then the
\* success result
AuthStatusStore(p) ==
    /\ pc[p] = "as_store"
    /\ tokens' = [tokens EXCEPT ![caller[p]] = StoreTokens(@, tok[p])]
    /\ result' = [result EXCEPT ![p] = OkRes(AuthData(op[p], TRUE))]
    /\ pc' = [pc EXCEPT ![p] = "done"]
    /\ UNCHANGED <<storeVars, op, batchVars, faultsLeft, driverVars, sideVars, clock,
                   envVars, tok, msgs, idx, threadCache, log, reqThread, sent>>

\* a storage call of one of the three rejects, or getAuthStatus finds no
\* user: the catch (or the early return) ends the operation
AuthFail(p) ==
    /\ pc[p] \in {"cb_store", "cb_status", "as_tokens", "as_store"}
    /\ faultsLeft > 0
    /\ faultsLeft' = faultsLeft - 1
    /\ \/ \E e \in StorageFaults : Caught(p, e)
       \/ /\ pc[p] = "as_tokens" /\ op[p] = "getAuthStatus"
          /\ result' = [result EXCEPT ![p] = ErrRes("User not found")]
          /\ pc' = [pc EXCEPT ![p] = "done"]
    /\ UNCHANGED <<storeVars, op, batchVars, driverVars, sideVars, tokens, clock, envVars,
                   tok, msgs, idx, threadCache, log, reqThread, sent>>

\* the steps of the sign-in callback and of the two status operations
AuthStep(p) ==
    \/ HandleGmailCallback(p)
    \/ \E ok \in BOOLEAN, t \in CodeTokens : CallbackCode(p, ok, t)
    \/ CallbackStore(p)
    \/ CallbackStatus(p)
    \/ \E o \in AuthOps : AuthStatus(p, o)
    \/ AuthStatusTokens(p)
    \/ AuthStatusValidate(p)
    \/ AuthStatusStore(p)
    \/ AuthFail(p)

\* ------------------------------------------------- the draft driver
InitDraft ==
    /\ InitRequests
    /\ emails = SeedEmails /\ threads = SeedThreads /\ nextId = 4
    /\ drafts = <<>>
    /\ batchIn = <<>>
    /\ \E t \in TokenStates : tokens = [u \in Users |-> IF u = "u1" THEN t ELSE NoTokens]
    /\ remote = <<M1>>
    /\ caller = [p \in Procs |-> "u1"]
    /\ opsLeft = MaxDraftOps

\* one request at a time generates or sends a draft while the user may log
\* out through another request
NextDraft == DraftStep("p1") \/ LogoutStep("p2") \/ Finish("p2")

SpecDraft == InitDraft /\ [][NextDraft]_vars

\* the rows of two users: those of u1 as seeded, and a thread of u2 with the
\* same remote ids, a message and a draft (the Draft table has ids of its own)
InitPurge ==
    /\ InitRequests
    /\ threads = SeedThreads \o <<ThreadRow(4, "u2", "t1", "Q3 Planning", ClockStart - 1)>>
    /\ emails = SeedEmails \o
          <<EmailRow(5, PayloadOf(Parsed[M1], [id |-> 4], "Q3 Planning", "u2", ClockStart))>>
    /\ drafts = <<DraftRow(1, 1, "u1", "draft text", "", ClockStart - 1), DraftRow(2, 4, "u2", "draft text", "", ClockStart - 1)>>
    /\ nextId = 6
    /\ batchIn = <<>>
    /\ tokens = [u \in Users |-> GoodTokens]
    /\ remote = <<M1, M3>>
    /\ caller = [p \in Procs |-> "u1"]
    /\ opsLeft = MaxOps

\* every operation of the service, the logout, the sign-in callback and the
\* status operations, one request at a time
NextPurge == NextOrch \/ NextReply \/ LogoutStep("p1") \/ AuthStep("p1")

SpecPurge == InitPurge /\ [][NextPurge]_vars

\* ----------------------------------------------------- payload trees
\* parts the payload of a message may have
MaxParts == 2

Part(mime, data, parts) == [mimeType |-> mime, data |-> data, parts |-> parts]

\* parts without sub-parts: bodies of both kinds, with and without data, and
\* an attachment
Leaves ==
    {Part("text/plain", "cGxhaW4=", <<>>), Part("text/plain; charset=utf-8", "dGV4dA==", <<>>),
     Part("text/plain", "", <<>>), Part("text/html", "PGI-aGk8L2I-", <<>>),
     Part("text/html; charset=utf-8", "PDw_Pj4=", <<>>), Part("image/png", "dGV4dA==", <<>>)}

\* parts with sub-parts: containers, and a body part that has sub-parts
Inner ==
    {Part("multipart/alternative", "", <<l>>) : l \in Leaves}
    \cup {Part("multipart/alternative", "", <<k, l>>) : k, l \in Leaves}
    \cup {Part("text/html", "PDw_Pj4=", <<l>>) : l \in Leaves}

\* message payloads: one part with an inline body, with or without a MIME
\* type, or a tree of parts
Payloads ==
    {Part(mime, data, <<>>) :
        mime \in {"", "text/plain", "text/html", "application/xhtml+xml"},
        data \in {"cGxhaW4=", "PGI-aGk8L2I-"}}
    \cup {Part("multipart/mixed", "", parts) :
             parts \in SeqsUpTo(Leaves \cup Inner, MaxParts)}
    \cup {Part("text/plain", "cGxhaW4=", <<l>>) : l \in Leaves}

\* a remote message with the given payload tree (and no headers)
RawTree(payload, snippet) ==
    [id |-> "g1", threadId |-> "t1", snippet |-> snippet, labelIds |-> {"INBOX"},
     payload |-> [headers |-> <<>>, mimeType |-> payload.mimeType,
                  data |-> payload.data, parts |-> payload.parts]]

\* messages.get answered: the message is parsed
ParseFetched(p) ==
    /\ pc[p] = "idle"
    /\ msgs' = [msgs EXCEPT ![p] = <<ParseGmailMessage(remote[1])>>]
    /\ pc' = [pc EXCEPT ![p] = "parsed"]
    /\ UNCHANGED <<storeVars, op, batchVars, faultsLeft, driverVars, sideVars,
                   tokens, clock, envVars, tok, idx, threadCache, log, result,
                   reqThread, sent>>

InitBodies ==
    /\ InitRequests
    /\ InitStore
    /\ batchIn = <<>>
    /\ tokens = [u \in Users |-> GoodTokens]
    /\ \E payload \in Payloads : remote = <<RawTree(payload, "snip")>>
    /\ caller = [p \in Procs |-> "u1"]
    /\ opsLeft = 0

NextBodies == ParseFetched("p1")

SpecBodies == InitBodies /\ [][NextBodies]_vars

\* the stored threads a message row is filed under
ThreadsOf(r) == {j \in DOMAIN threads : threads[j].id = r.threadId}

\* every stored message is filed under exactly one stored thread, of its user
FiledUnderOwnThread ==
    \A i \in DOMAIN emails :
       /\ Cardinality(ThreadsOf(emails[i])) = 1
       /\ \A j \in ThreadsOf(emails[i]) : threads[j].userId = emails[i].userId

\* a getThread that returned a thread returned one of the calling user
ReturnedOwnThread ==
    \A p \in Procs :
       (pc[p] = "done" /\ op[p] = "getThread" /\ Len(result[p].data) = 1) =>
          \A j \in DOMAIN threads :
             threads[j].id = result[p].data[1].thread.id =>
                threads[j].userId = caller[p]

\* C21: every stored message is filed under exactly one stored thread, and
\* that thread has the user of the message; and a getThread that returned a
\* thread returned one of the calling user.
C21_Ownership == FiledUnderOwnThread /\ ReturnedOwnThread

\* the threads the batch that request p has just committed wrote a message into
WrittenThreads(p) ==
    {j \in DOMAIN threads :
        \E i \in DOMAIN payloads[p] :
           /\ i \in DOMAIN report[p].results
           /\ report[p].results[i].success
           /\ payloads[p][i].threadId = threads[j].id}

\* C22: when a sync or getThread has stored its messages, every thread that
\* received a message has an updatedAt at least as late as that of every
\* thread of the user that received none, so that it is listed before them.
C22_UpdatedAtFollowsMessages ==
    \A p \in Procs :
       (pc[p] = "batch_ret" /\ op[p] \in {"sync", "getThread"}) =>
          \A j \in WrittenThreads(p) :
             \A k \in DOMAIN threads \ WrittenThreads(p) :
                threads[k].userId = threads[j].userId =>
                   threads[j].updatedAt >= threads[k].updatedAt

\* the row of draft id in a Draft table, <<>> if it has none
DraftOf(rows, id) == SelectSeq(rows, LAMBDA r : r.id = id)

\* a draft is created PENDING; its status changes only from PENDING to SENT
\* or FAILED, and with the change to SENT it gets the time of the change
DraftStepAllowed ==
    \A i \in DOMAIN drafts' :
       LET new == drafts'[i]
           old == DraftOf(drafts, new.id)
       IN IF old = <<>> THEN new.status = "PENDING"
          ELSE \/ new = old[1]
               \/ /\ old[1].status = "PENDING"
                  /\ new.status \in {"SENT", "FAILED"}
                  /\ new.status = "SENT" => new.sentAt = clock
                  /\ [new EXCEPT !.status = "PENDING", !.sentAt = 0,
                                 !.updatedAt = old[1].updatedAt] = old[1]

\* C23: over any sequence of generateDraft and sendDraft calls a draft starts
\* PENDING, changes only PENDING to SENT or PENDING to FAILED, is never
\* changed once SENT or FAILED, and a SENT draft carries the time at which
\* it became SENT.
C23_DraftStatusMachine ==
    /\ [](\A i \in DOMAIN drafts : drafts[i].status = "SENT" => drafts[i].sentAt # 0)
    /\ [][DraftStepAllowed]_vars

\* the users no request acts for
Bystanders == {u \in Users : \A p \in Procs : caller[p] # u}

\* the message rows and the thread rows of user u
RowsOfUser(rows, u) == SelectSeq(rows, LAMBDA r : r.userId = u)

\* the message rows filed under thread tid
RowsUnder(rows, tid) == SelectSeq(rows, LAMBDA r : r.threadId = tid)

\* a step leaves the message rows and the thread rows of every bystander as
\* they were
BystanderRowsKept ==
    \A u \in Bystanders :
       /\ RowsOfUser(emails', u) = RowsOfUser(emails, u)
       /\ RowsOfUser(threads', u) = RowsOfUser(threads, u)

\* a step leaves the messages collected under every thread of a bystander as
\* they were
BystanderThreadsKept ==
    \A u \in Bystanders :
       \A j \in DOMAIN threads :
          threads[j].userId = u =>
             RowsUnder(emails', threads[j].id) = RowsUnder(emails, threads[j].id)

\* C24: the operations of one user never update, move or hide a message of
\* another user, whatever remote ids they share, and leave every message and
\* every thread of the other user, with the messages it holds, unchanged.
C24_CrossUserIsolation == [][BystanderRowsKept /\ BystanderThreadsKept]_vars

\* no step touches a row of a bystander
BystanderRowsIsolated == [][BystanderRowsKept]_vars

\* the access tokens the provider issued to user u
IssuedTo(u) == IF u = "u1" THEN {"a1", FreshAccess} ELSE {"b1"}

\* credentials t are those of user u: an access token issued to u, or none
\* beside the refresh token of u
CredentialsOf(u, t) ==
    \/ t.accessToken \in IssuedTo(u)
    \/ t.accessToken = "" /\ t.refreshToken = OwnTokens(u).refreshToken

\* C25: every remote request a request issues through the shared client
\* carries the credentials of the user the request acts for.
C25_OwnCredentialsOnRequests ==
    \A p \in Procs :
       \A i \in DOMAIN log[p] : CredentialsOf(caller[p], log[p][i].tokens)

\* C26: the tokens validateTokens hands back for a user, and the access token
\* stored for a user, were issued to that user.
C26_NoCrossUserTokens ==
    /\ \A u \in Users : CredentialsOf(u, tokens[u])
    /\ \A p \in Procs :
          (pc[p] = "done" /\ op[p] = "validate" /\ Len(result[p].data) = 1) =>
             result[p].data[1].accessToken \in IssuedTo(caller[p])

\* a storage call of ensureThread fails for the message request p is at
EnsureThreadFails(p) ==
    /\ pc[p] \in {"ens_find", "ens_create"}
    /\ op[p] \in {"sync", "getThread"}
    /\ faultsLeft' < faultsLeft

\* the operation of request p has ended in a failure that reports nothing
\* per message
FailedAsAWhole(p) ==
    /\ pc'[p] = "done"
    /\ ~result'[p].success
    /\ result'[p].data = <<>>

\* C27: a storage failure while finding or creating the thread of one
\* fetched message does not end the sync or getThread in a failure of the
\* whole operation; the pass goes on with the other messages.
C27_EnsureThreadFailureIsolated ==
    [][\A p \in Procs : EnsureThreadFails(p) => ~FailedAsAWhole(p)]_vars

\* calls i < j of request p's log that fetch a thread, or that send
SameRemoteCall(p, i, j) ==
    /\ i < j
    /\ log[p][i].call = log[p][j].call
    /\ log[p][i].call \in {"getThreadMessages", "sendReply"}

\* C28: a getThread fetches the thread at most once and a replyToThread
\* sends at most once; a fetch or send that failed is not followed by
\* another attempt.  The only repeated call in one request is the fetch of
\* the getThread that replyToThread ends with, after its one successful send.
C28_NoRetry ==
    \A p \in Procs :
       \A i, j \in DOMAIN log[p] :
          SameRemoteCall(p, i, j) =>
             /\ log[p][i].call = "getThreadMessages"
             /\ log[p][i].outcome = "ok"
             /\ \E k \in DOMAIN log[p] :
                   i < k /\ k < j /\ log[p][k] = Call("sendReply", log[p][k].tokens, "ok")

\* C28 witness: a replyToThread whose one send failed has returned
C28_Witness ==
    /\ pc["p1"] = "done"
    /\ Len(Sends("p1")) = 1
    /\ Sends("p1")[1].outcome = "other"
    /\ ~result["p1"].success

\* the ids of the rows of a table
IdsOf(rows) == {rows[i].id : i \in DOMAIN rows}

\* a step of the account purge of request p
PurgeStep(p) == op[p] = "purge" /\ pc[p] # "done"

\* a step of the core removes no message, thread or draft
CoreKeepsRows ==
    (\A p \in Procs : ~PurgeStep(p)) =>
       /\ IdsOf(emails) \subseteq IdsOf(emails')
       /\ IdsOf(threads) \subseteq IdsOf(threads')
       /\ IdsOf(drafts) \subseteq IdsOf(drafts')

\* a purge removes rows of its user only, and when the logout has returned
\* success no message, thread or draft of the user is left
PurgeOfCallerOnly ==
    \A p \in Procs :
       PurgeStep(p) =>
          /\ \A u \in Users \ {caller[p]} :
                /\ RowsOfUser(emails', u) = RowsOfUser(emails, u)
                /\ RowsOfUser(threads', u) = RowsOfUser(threads, u)
                /\ RowsOfUser(drafts', u) = RowsOfUser(drafts, u)
          /\ (pc'[p] = "done" /\ result'[p].success) =>
                /\ RowsOfUser(emails', caller[p]) = <<>>
                /\ RowsOfUser(threads', caller[p]) = <<>>
                /\ RowsOfUser(drafts', caller[p]) = <<>>

\* C29: syncUserEmails, getThread and replyToThread only add message
\* identities or update rows in place; only the account purge removes
\* messages, threads and drafts, and a logout that returns success has
\* removed all three for its user and nothing of any other user.
C29_OnlyPurgeDeletes == [][CoreKeepsRows /\ PurgeOfCallerOnly]_vars

\* C29 witness: a purge has returned after the core had stored a message;
\* the rows of the other user are still there
C29_Witness ==
    /\ op["p1"] = "purge" /\ pc["p1"] = "done"
    /\ result["p1"].success
    /\ nextId > 6
    /\ emails # <<>> /\ threads # <<>> /\ drafts # <<>>

RECURSIVE Preorder(_)
\* the parts of a list of part trees, each part before its sub-parts
Preorder(parts) ==
    IF parts = <<>> THEN <<>>
    ELSE <<Head(parts)>> \o Preorder(Head(parts).parts) \o Preorder(Tail(parts))

\* the decoded body of the first part of the list that has data and whose
\* MIME type is of the given kind, "" if there is none
FirstBody(list, kind) ==
    LET hits == {i \in DOMAIN list :
                    Contains(list[i].mimeType, kind) /\ list[i].data # ""}
    IN IF hits = {} THEN ""
       ELSE Decode(list[CHOOSE i \in hits : \A j \in hits : i <= j].data)

\* the payload has an inline body of its own
SinglePart(payload) == payload.data # ""

\* what the claim expects of extractBodies for a payload
ExpectedBodies(payload) ==
    IF SinglePart(payload)
    THEN IF Contains(payload.mimeType, "html")
         THEN [html |-> Decode(payload.data), text |-> ""]
         ELSE [html |-> "", text |-> Decode(payload.data)]
    ELSE [html |-> FirstBody(Preorder(payload.parts), "text/html"),
          text |-> FirstBody(Preorder(payload.parts), "text/plain")]

\* C30: for every payload tree, extractBodies gives as html the first
\* text/html part with data and as text the first text/plain part with data,
\* a part coming before its sub-parts; a payload with an inline body of its
\* own gives that body only; and the body of the parsed message is the text
\* if there is one, else the html, else the snippet.
C30_BodyNormalization ==
    \A p \in Procs :
       pc[p] = "parsed" =>
          LET data == remote[1]
              expected == ExpectedBodies(data.payload)
          IN /\ ExtractBodies(data.payload) = expected
             /\ msgs[p][1].htmlBody = expected.html
             /\ msgs[p][1].body =
                   IF expected.text # "" THEN expected.text
                   ELSE IF expected.html # "" THEN expected.html
                   ELSE data.snippet

\* C30 witness: a parsed multipart message whose first html part lies inside
\* a container that comes before another html part, and whose body is the
\* text of a later part
C30_Witness ==
    /\ pc["p1"] = "parsed"
    /\ Len(remote[1].payload.parts) = 2
    /\ remote[1].payload.parts[1].parts # <<>>
    /\ remote[1].payload.parts[2].mimeType = "text/html"
    /\ msgs["p1"][1].htmlBody = "<<?>>"
    /\ msgs["p1"][1].body = "plain"

\* message j of request p is one the loop reconciles (it has both ids)
HasBothIds(p, j) == msgs[p][j].threadId # "" /\ msgs[p][j].id # ""

\* request p is inside ensureThread for the message its loop is at
InEnsureThread(p) == pc[p] \in {"ens_find", "ens_create"}

\* C31: within one sync or getThread, ensureThread runs only for a message
\* whose remote thread id no earlier message of the pass had, and in
\* getThread never for the remote id of the requested thread; and a pass run
\* alone leaves no two threads of a user with the same remote thread id.
C31_EnsureThreadMemoized ==
    /\ \A p \in Procs :
          InEnsureThread(p) =>
             /\ \A j \in 1..(idx[p] - 1) :
                   HasBothIds(p, j) => msgs[p][j].threadId # msgs[p][idx[p]].threadId
             /\ op[p] = "getThread" =>
                   msgs[p][idx[p]].threadId # threadCache[p].requested.gmailId
    /\ \A i, j \in DOMAIN threads :
          (i # j /\ threads[i].userId = threads[j].userId /\ threads[i].gmailId # "")
             => threads[i].gmailId # threads[j].gmailId

\* C31 witness: a sync has reconciled two messages of one remote thread and
\* filed them under the one thread it created for them in this pass
C31_Witness ==
    /\ op["p1"] = "sync" /\ pc["p1"] = "batch_ret"
    /\ Len(payloads["p1"]) >= 2
    /\ payloads["p1"][1].threadId = payloads["p1"][2].threadId
    /\ \E j \in DOMAIN threads :
          /\ threads[j].id = payloads["p1"][1].threadId
          /\ threads[j].updatedAt >= ClockStart

\* the k-th reconciled message of a getThread of p came back under another
\* remote thread id than that of the requested thread
OfOtherThread(p, k) ==
    Reconciled(p)[k].threadId # threadCache[p].requested.gmailId

\* the stored threads with local id t, remote id g and user u
ThreadsWith(t, g, u) ==
    {j \in DOMAIN threads :
        threads[j].id = t /\ threads[j].gmailId = g /\ threads[j].userId = u}

\* C32: when getThread has stored the fetched messages, every message whose
\* remote thread id differs from that of the requested thread is filed, in
\* the payload and in the stored row, under a thread of the calling user
\* that has the message's own remote thread id, and not under the requested
\* thread; and a getThread that returns a thread returns the requested one.
C32_DefensiveRemap ==
    \A p \in Procs :
       /\ (op[p] = "getThread" /\ pc[p] = "batch_ret") =>
             \A k \in DOMAIN payloads[p] :
                OfOtherThread(p, k) =>
                   /\ payloads[p][k].threadId # threadCache[p].requested.id
                   /\ ThreadsWith(payloads[p][k].threadId,
                                  Reconciled(p)[k].threadId, caller[p]) # {}
                   /\ report[p].results[k].success =>
                         \E i \in DOMAIN emails :
                            /\ emails[i].gmailId = Reconciled(p)[k].id
                            /\ emails[i].userId = caller[p]
                            /\ emails[i].threadId = payloads[p][k].threadId
       /\ (op[p] = "getThread" /\ pc[p] = "done" /\ Len(result[p].data) = 1) =>
             result[p].data[1].thread.id = reqThread[p]

\* C32 witness: a getThread of thread 1 (remote t1) stored a message of
\* another remote thread under a thread created for it, and has returned.
C32_Witness ==
    /\ op["p1"] = "getThread" /\ pc["p1"] = "done"
    /\ reqThread["p1"] = 1
    /\ result["p1"].success
    /\ \E k \in DOMAIN payloads["p1"] :
          /\ OfOtherThread("p1", k)
          /\ payloads["p1"][k].threadId >= 4
          /\ report["p1"].results[k].success

\* row r holds the from/to/subject/body/htmlBody/timestamp/unread/thread of e
HoldsInput(r, e) ==
    /\ r.from = e.from /\ r.to = e.to /\ r.subject = e.subject
    /\ r.body = e.body /\ r.htmlBody = e.htmlBody
    /\ r.timestamp = e.timestamp /\ r.isUnread = e.isUnread
    /\ r.threadId = e.threadId

\* item i of the batch of p, or the one input of its upsertEmail, completes
\* its update or create in this step without a storage failure
ItemWrites(p, i) ==
    /\ i \in DOMAIN itemPc[p]
    /\ itemPc[p][i] = "write"
    /\ itemPc'[p][i] = "done"
    /\ i \notin injected'[p]

\* C33: when an upsert (an item of a batch, or an upsertEmail) completes
\* its write, then if its findFirst had found a message with its (remote
\* message id, user), the result is a success with created = false and no
\* error, as many messages are stored as before, and the found message now
\* holds the from/to/subject/body/htmlBody/timestamp/unread/thread of the
\* input; if it had found none, one message is added that holds the input,
\* and the result has created = true.
C33_UpdatePath ==
    [][\A p \in Procs : \A i \in DOMAIN payloads[p] :
          ItemWrites(p, i) =>
             LET e == payloads[p][i]
                 ex == itemExisting[p][i]
                 before == ApplyOps(emails, txOps[p])
                 after == ApplyOps(emails', txOps'[p])
                 res == results'[p][i]
             IN IF ex # 0
                THEN /\ res.success /\ ~res.created /\ res.error = ""
                     /\ Len(after) = Len(before)
                     /\ \E k \in DOMAIN after :
                           /\ after[k].id = ex
                           /\ after[k].gmailId = e.gmailId
                           /\ after[k].userId = e.userId
                           /\ HoldsInput(after[k], e)
                     /\ HoldsInput(res.email[1], e)
                ELSE /\ res.success /\ res.created
                     /\ Len(after) = Len(before) + 1
                     /\ after[Len(after)].gmailId = e.gmailId
                     /\ after[Len(after)].userId = e.userId
                     /\ HoldsInput(after[Len(after)], e)]_vars

\* the stored messages with remote id g and user u
StoredAs(g, u) == {k \in DOMAIN emails : emails[k].gmailId = g /\ emails[k].userId = u}

\* C34: when the first batch on an empty store, given two inputs with the
\* same (remote message id, user), has committed without a storage failure,
\* exactly one message with that remote id and user is stored and
\* createdCount is 1, however the steps of the two items interleaved.
C34_DuplicateInBatch ==
    (/\ op["p1"] = "batch" /\ pc["p1"] = "batch_ret"
     /\ reports = <<>>
     /\ injected["p1"] = {}
     /\ Len(payloads["p1"]) = 2
     /\ payloads["p1"][1].gmailId = payloads["p1"][2].gmailId
     /\ payloads["p1"][1].userId = payloads["p1"][2].userId)
    => /\ Cardinality(StoredAs(payloads["p1"][1].gmailId, payloads["p1"][1].userId)) = 1
       /\ report["p1"].createdCount = 1

\* the failures replyToThread returns before it has built a reply
EarlyReplyErrors ==
    {"Thread not found", "Thread is missing Gmail metadata",
     ThreadFetchErr.message, "No messages found in thread",
     "Unable to determine recipient"}

\* the thread fetches of p's current request that failed
FailedFetches(p) ==
    SelectSeq(log[p], LAMBDA c : c.call = "getThreadMessages" /\ c.outcome # "ok")

\* the state part of C35, for a request p that is still the reply itself
NoSendOnEarlyFailure(p) ==
    /\ (pc[p] = "done" /\ result[p].error \in EarlyReplyErrors) =>
          ~result[p].success /\ Sends(p) = <<>>
    /\ FailedFetches(p) # <<>> =>
          pc[p] = "done" /\ ~result[p].success /\ Sends(p) = <<>>
    /\ Sends(p) # <<>> =>
          /\ FindThreadById(reqThread[p]) # <<>>
          /\ FindThreadById(reqThread[p])[1].gmailId # ""
          /\ msgs[p] # <<>>
          /\ \E k \in DOMAIN msgs[p] : msgs[p][k].from # ""

\* C35: while a request is replyToThread itself, sendReply has been invoked
\* only if the thread is stored, has a remote thread id, the thread fetch
\* succeeded with at least one message and some message has a sender; a
\* request that ended with one of the early failures, or whose thread fetch
\* failed, is a failure without any sendReply; and no step of the reply
\* changes the stored threads or messages.
C35_NoSendOnEarlyFailure ==
    /\ [](\A p \in Procs : op[p] = "reply" => NoSendOnEarlyFailure(p))
    /\ [][\A p \in Procs :
            (op[p] = "reply" /\ op'[p] = "reply") =>
               UNCHANGED <<emails, threads, nextId>>]_vars

\* C35 witness: the latest message of the thread has no From header, and the
\* reply ended with "Unable to determine recipient" without a sendReply
C35_Witness ==
    /\ op["p1"] = "reply" /\ pc["p1"] = "done"
    /\ result["p1"].error = "Unable to determine recipient"
    /\ Len(msgs["p1"]) = 2
    /\ Sends("p1") = <<>>

\* a logout of user u runs clearTokens in this step
ClearsTokens(u) ==
    \E p \in Procs :
       caller[p] = u /\ pc[p] = "lo_clear" /\ pc'[p] = "purge_find"

\* the places at which a request awaits storeTokens with the tokens it holds
StorePcs ==
    {"sync_store", "gt_store", "rp_store", "sn_store", "vt_store", "cb_store", "as_store"}

\* request p's storeTokens call returns in this step (it did not throw)
StoresTokens(p) ==
    /\ pc[p] \in StorePcs
    /\ pc'[p] # pc[p]
    /\ faultsLeft' = faultsLeft

\* C36: a storeTokens call writes the token fields present in its input
\* and leaves the others as stored, so a store of tokens that hold no
\* refresh token (such as a validateTokens result without one) leaves the
\* stored refresh token unchanged; a stored token changes only in a
\* storeTokens call of that user or in the clearTokens of a logout, and
\* becomes absent only in that clearTokens.
C36_RefreshTokenKept ==
    [][\A u \in Users :
          /\ \A p \in Procs :
                (caller[p] = u /\ StoresTokens(p)) =>
                   /\ tok[p].refreshToken = "" =>
                         tokens'[u].refreshToken = tokens[u].refreshToken
                   /\ tok[p].accessToken = "" =>
                         tokens'[u].accessToken = tokens[u].accessToken
                   /\ tok[p].refreshToken # "" =>
                         tokens'[u].refreshToken = tok[p].refreshToken
                   /\ tok[p].accessToken # "" =>
                         tokens'[u].accessToken = tok[p].accessToken
          /\ tokens'[u] # tokens[u] =>
                \/ ClearsTokens(u)
                \/ \E p \in Procs : caller[p] = u /\ StoresTokens(p)
          /\ (\/ tokens[u].accessToken # "" /\ tokens'[u].accessToken = ""
              \/ tokens[u].refreshToken # "" /\ tokens'[u].refreshToken = "")
                => ClearsTokens(u)]_vars

\* C36 witness: the user had both tokens stored and signed in again; the
\* new grant came without a refresh token, and after its storeTokens the
\* new access token is stored beside the refresh token stored before.
C36_Witness ==
    /\ op["p1"] = "handleGmailCallback"
    /\ pc["p1"] = "cb_status"
    /\ tok["p1"] = [accessToken |-> "a9", refreshToken |-> ""]
    /\ tokens["u1"] = [accessToken |-> "a9", refreshToken |-> GoodTokens.refreshToken]

\* ------------------------------------------- logout beside a running request
\* user u1 has the seeded rows and a draft; request p2 syncs or reads a
\* thread while request p1 logs the same user out
InitRace ==
    /\ InitRequests
    /\ emails = SeedEmails /\ threads = SeedThreads /\ nextId = 4
    /\ drafts = <<DraftRow(1, 1, "u1", "draft text", "", ClockStart - 1)>>
    /\ batchIn = <<>>
    /\ tokens = [u \in Users |-> IF u = "u1" THEN GoodTokens ELSE NoTokens]
    /\ remote = <<M1, M3>>
    /\ caller = [p \in Procs |-> "u1"]
    /\ opsLeft = MaxOps

NextRace ==
    \/ SyncOrGetStep("p2")
    \/ SharedStep("p2")
    \/ LogoutStep("p1")

SpecRace == InitRace /\ [][NextRace]_vars

\* every stored message is filed under a stored thread
NoOrphanMessage ==
    \A i \in DOMAIN emails : \E j \in DOMAIN threads : threads[j].id = emails[i].threadId

\* the logout of p1 has returned success and the request of p2, if any,
\* has ended
BothFinished ==
    /\ op["p1"] = "purge" /\ pc["p1"] = "done"
    /\ result["p1"].success
    /\ pc["p2"] \in {"idle", "done"}

\* nothing of user u is stored
NothingLeftOf(u) ==
    /\ \A i \in DOMAIN threads : threads[i].userId # u
    /\ \A i \in DOMAIN emails : emails[i].userId # u
    /\ \A i \in DOMAIN drafts : drafts[i].userId # u

\* C37: however a logout interleaves with a syncUserEmails or getThread of
\* the same user, every stored message is filed under a stored thread, and
\* once both have ended no thread, message or draft of the user is stored.
C37_PurgeVersusSync ==
    /\ NoOrphanMessage
    /\ BothFinished => NothingLeftOf(caller["p1"])

\* ------------------------------------------------------ background service
\* start() and stop() calls the application makes
MaxCalls == 4
\* executions of runPeriodicTasks there may be
MaxPolls == 2

\* what getOnlineUsers may answer: the online users in the order the
\* storage lists them; [] also stands for its own catch
Snapshots == {<<>>, <<"u1", "u2">>}

\* how a call of the injected sync function may end: it resolves (with a
\* number or void), resolves after the sync reported a failure, or rejects
SyncOutcomes == {"ok", "failure", "throws"}

\* runPeriodicTasks() up to its first await, getOnlineUsers()
NewRun(by) ==
    [by |-> by, pc |-> "online", users |-> <<>>, i |-> 1, calls |-> <<>>,
     outcomes |-> <<>>]

\* A start() without the isRunning check.
StartUnguarded ==
    /\ opsLeft > 0
    /\ opsLeft' = opsLeft - 1
    /\ lastCall' = "start"
    /\ Len(runs) < MaxPolls
    /\ isRunning' = TRUE
    /\ intervalId' = nextTimer
    /\ timers' = timers \cup {nextTimer}
    /\ nextTimer' = nextTimer + 1
    /\ runs' = Append(runs, NewRun("start"))
    /\ UNCHANGED <<storeVars, pc, op, batchVars, faultsLeft, driverVars, drafts,
                   credentials, tokens, clock, remote, caller, orchVars>>

\* start(): nothing when already running; otherwise isRunning is set, the
\* interval timer is created and runPeriodicTasks is called at once
Start ==
    /\ opsLeft > 0
    /\ opsLeft' = opsLeft - 1
    /\ lastCall' = "start"
    /\ IF isRunning
       THEN UNCHANGED <<isRunning, intervalId, timers, nextTimer, runs>>
       ELSE /\ Len(runs) < MaxPolls
            /\ isRunning' = TRUE
            /\ intervalId' = nextTimer
            /\ timers' = timers \cup {nextTimer}
            /\ nextTimer' = nextTimer + 1
            /\ runs' = Append(runs, NewRun("start"))
    /\ UNCHANGED <<storeVars, pc, op, batchVars, faultsLeft, driverVars, drafts,
                   credentials, tokens, clock, remote, caller, orchVars>>

\* stop(): the timer, if there is one, is cleared; isRunning is reset
Stop ==
    /\ opsLeft > 0
    /\ opsLeft' = opsLeft - 1
    /\ lastCall' = "stop"
    /\ timers' = IF intervalId # 0 THEN timers \ {intervalId} ELSE timers
    /\ intervalId' = 0
    /\ isRunning' = FALSE
    /\ UNCHANGED <<nextTimer, runs>>
    /\ UNCHANGED <<storeVars, pc, op, batchVars, faultsLeft, driverVars, drafts,
                   credentials, tokens, clock, remote, caller, orchVars>>

\* syncAllUsers(), the manual trigger: an execution of its own that starts
\* no timer and is not one of runPeriodicTasks
SyncAllUsers ==
    /\ opsLeft > 0
    /\ opsLeft' = opsLeft - 1
    /\ lastCall' = "syncAllUsers"
    /\ Len(runs) < MaxPolls
    /\ runs' = Append(runs, NewRun("manual"))
    /\ UNCHANGED <<isRunning, intervalId, timers, nextTimer>>
    /\ UNCHANGED <<storeVars, pc, op, batchVars, faultsLeft, driverVars, drafts,
                   credentials, tokens, clock, remote, caller, orchVars>>

\* 30 seconds have passed on active timer t: its callback calls
\* runPeriodicTasks(), whatever earlier executions are doing
Tick(t) ==
    /\ t \in timers
    /\ Len(runs) < MaxPolls
    /\ lastCall' = "tick"
    /\ runs' = Append(runs, NewRun("timer"))
    /\ UNCHANGED <<isRunning, intervalId, timers, nextTimer>>
    /\ UNCHANGED <<storeVars, pc, op, batchVars, faultsLeft, driverVars, drafts,
                   credentials, tokens, clock, envVars, orchVars>>

\* execution r changes to the record next; nothing else does
RunStep(r, next) ==
    /\ runs' = [runs EXCEPT ![r] = next]
    /\ UNCHANGED <<isRunning, intervalId, timers, nextTimer, lastCall>>
    /\ UNCHANGED <<storeVars, pc, op, batchVars, faultsLeft, driverVars, drafts,
                   credentials, tokens, clock, envVars, orchVars>>

\* onlineUsers = await this.getOnlineUsers()
GetOnlineUsers(r) ==
    /\ runs[r].pc = "online"
    /\ \E onlineUsers \in Snapshots :
          RunStep(r, [runs[r] EXCEPT !.users = onlineUsers, !.pc = "loop"])

\* the for loop reaches user i: this.syncFn(user.firebaseUid) is called
SyncCall(r) ==
    /\ runs[r].pc = "loop"
    /\ runs[r].i <= Len(runs[r].users)
    /\ RunStep(r, [runs[r] EXCEPT !.calls = Append(@, runs[r].users[runs[r].i]),
                                  !.pc = "sync"])

\* A loop that a rejected sync leaves.
SyncSettleStopping(r) ==
    /\ runs[r].pc = "sync"
    /\ \E o \in SyncOutcomes :
          RunStep(r, [runs[r] EXCEPT !.outcomes = Append(@, o),
                                     !.i = @ + 1,
                                     !.pc = IF o = "throws" THEN "ended" ELSE "loop"])

\* the awaited sync settles; in runPeriodicTasks a rejection is caught and
\* logged inside the loop, and the loop goes on with the next user; the
\* loop of syncAllUsers has no try, and a rejection ends the call
SyncSettle(r) ==
    /\ runs[r].pc = "sync"
    /\ \E o \in SyncOutcomes :
          RunStep(r, [runs[r] EXCEPT !.outcomes = Append(@, o),
                                     !.i = @ + 1,
                                     !.pc = IF o = "throws" /\ runs[r].by = "manual"
                                            THEN "ended" ELSE "loop"])

\* the loop is over: in runPeriodicTasks cleanupOfflineUsers() is or is not
\* due and may fail, which the outer catch logs; the execution ends
RunFinish(r) ==
    /\ runs[r].pc = "loop"
    /\ runs[r].i > Len(runs[r].users)
    /\ RunStep(r, [runs[r] EXCEPT !.pc = "ended"])

\* the service as constructed, nothing stored
InitBackground ==
    /\ InitRequests
    /\ InitStore
    /\ batchIn = <<>>
    /\ tokens = [u \in Users |-> GoodTokens]
    /\ remote = <<>>
    /\ caller = [p \in Procs |-> "u1"]
    /\ opsLeft = MaxCalls

NextBackground ==
    \/ Start
    \/ Stop
    \/ SyncAllUsers
    \/ \E t \in timers : Tick(t)
    \/ \E r \in DOMAIN runs : GetOnlineUsers(r)
    \/ \E r \in DOMAIN runs : SyncCall(r)
    \/ \E r \in DOMAIN runs : SyncSettle(r)
    \/ \E r \in DOMAIN runs : RunFinish(r)

SpecBackground == InitBackground /\ [][NextBackground]_vars

\* the state part of C38: the runtime holds at most one timer, the one
\* intervalId names, and it holds one exactly when isRunning
OneTimer ==
    /\ Cardinality(timers) <= 1
    /\ timers = IF intervalId = 0 THEN {} ELSE {intervalId}
    /\ isRunning <=> intervalId # 0

\* start() or stop() is called in this step
Calls(name) == opsLeft' = opsLeft - 1 /\ lastCall' = name

\* the step part of C38
LifecycleStep ==
    /\ (Calls("start") /\ isRunning) => UNCHANGED <<timers, intervalId, isRunning, runs>>
    /\ (Calls("start") /\ ~isRunning) =>
          /\ isRunning'
          /\ Cardinality(timers') = 1
          /\ timers' \cap timers = {}
          /\ Len(runs') = Len(runs) + 1
    /\ Calls("stop") => timers' = {} /\ ~isRunning' /\ intervalId' = 0

\* C38: at every moment at most one interval timer is active, and one is
\* active exactly when isRunning; a start() while running changes neither
\* the timers nor the executions; a start() while not running leaves exactly
\* one timer, a new one, and starts one execution; a stop() leaves no timer
\* and isRunning false.
C38_OneTimer == []OneTimer /\ [][LifecycleStep]_vars

\* C38 witness: start(), start(), stop() and start() were called: the second
\* timer is the only one active
C38_Witness ==
    /\ opsLeft = 0
    /\ lastCall = "start"
    /\ isRunning
    /\ timers = {2}
    /\ Len(runs) = 2

\* the executions of runPeriodicTasks
Periodic == {r \in DOMAIN runs : runs[r].by # "manual"}

\* the users execution r has called the sync function for are the first
\* ones of its snapshot, in order, each once
CalledInOrder(r) ==
    /\ Len(runs[r].calls) <= Len(runs[r].users)
    /\ runs[r].calls = SubSeq(runs[r].users, 1, Len(runs[r].calls))

\* a sync call of execution r settles in this step as a rejection or after
\* a reported failure
SyncFails(r) ==
    /\ r \in DOMAIN runs
    /\ runs[r].pc = "sync"
    /\ Len(runs'[r].outcomes) = Len(runs[r].outcomes) + 1
    /\ runs'[r].outcomes[Len(runs'[r].outcomes)] \in {"failure", "throws"}

\* C39: an execution of runPeriodicTasks calls the sync function for the
\* users of its snapshot in order, each once, and has called it for all of
\* them when it ends, however the earlier calls ended; and the step in which
\* a sync call fails leaves the execution in its loop and the timer, the
\* timer reference and isRunning as they were.
C39_FailureIsolation ==
    /\ [](\A r \in Periodic :
             /\ CalledInOrder(r)
             /\ runs[r].pc = "ended" => runs[r].calls = runs[r].users)
    /\ [][\A r \in Periodic :
             SyncFails(r) =>
                /\ runs'[r].pc = "loop"
                /\ UNCHANGED <<timers, intervalId, isRunning>>]_vars

\* C39 witness: with the timer active, an execution whose sync for the
\* first user rejected went on to the second user and ended
C39_Witness ==
    /\ timers # {}
    /\ \E r \in Periodic :
          /\ runs[r].pc = "ended"
          /\ runs[r].users = <<"u1", "u2">>
          /\ runs[r].calls = <<"u1", "u2">>
          /\ runs[r].outcomes[1] = "throws"

\* the executions of runPeriodicTasks that have not ended
InFlight == {r \in Periodic : runs[r].pc # "ended"}

\* the executions awaiting a sync of user u
Syncing(u) ==
    {r \in Periodic :
        runs[r].pc = "sync" /\ runs[r].calls[Len(runs[r].calls)] = u}

\* C40: at most one execution of runPeriodicTasks is in flight, and no two
\* executions await a sync of the same user at once.
C40_NoOverlap ==
    /\ Cardinality(InFlight) <= 1
    /\ \A u \in Users : Cardinality(Syncing(u)) <= 1

====
